---- MODULE Spec2Model ----
(***************************************************************************)
(* Iterative document-state refinement engine of CarnotAgents.             *)
(*                                                                         *)
(* The prototypes of the step loop are modelled, each under its own        *)
(* specification:                                                          *)
(*   SpecV4   "Final code v4": solve + _apply_changes (line directives);   *)
(*   SpecV10  "Final code v10 self improving": solve with the correction   *)
(*            and fallback prompts;                                        *)
(*   SpecLG   "LangGraph and LangChain v2": the workflow nodes that append *)
(*            to SystemState.history;                                      *)
(*   SpecDoc  the named-section Document Store (renaissance package).      *)
(***************************************************************************)
EXTENDS Integers, Sequences, FiniteSets, TLC

VARIABLES
    v4_pc,        \* v4 solve: "idle", "loop", "got", "solved", "raised"
    v4_state,     \* v4 solve's local `state`: [cells, current_cell_id]
    v4_prior,     \* the SystemState object handed to the last _apply_changes
    v4_response,  \* v4 solve's local `response`: a sequence of lines
    v4_uuid,      \* number of uuid4() values drawn so far
    x_pc,         \* position of v10 solve (the recovery tier about to prompt)
    x_state,      \* v10 solve's local `state`
    x_prior,      \* value of `state` when the current iteration started
    x_response,   \* v10 local `response`
    x_correction, \* v10 local `correction_response`
    x_final,      \* v10 local `final_response`
    x_path,       \* recovery tiers entered in the current iteration, in order
    x_iter,       \* iterations completed
    x_uuid,       \* uuid4() values drawn so far
    x_history,    \* History Ledger
    lg_pc,        \* LangGraph v2: the workflow node to run next
    lg_state,     \* LangGraph v2 SystemState: [nodes, current_focus_id, history]
    d_policy,     \* Document Store: section_naming_policy
    d_dup,        \* Document Store: what a NewSection of a present name does
    d_sections,   \* Document Store: section name -> content
    d_last,       \* Document Store: outcome of the last batch
    s7_pc,        \* task-aware solver: "idle", "step", "solved", "raised"
    s7_state,     \* task-aware solver: SystemState.cells, id -> CellContent
    s7_uuid,      \* task-aware solver: uuid4() values drawn so far
    s7_steps,     \* task-aware solver: solve_step calls completed
    r_ordering,   \* renaissance: configured toc_ordering ("idle" when unused)
    r_sections,   \* renaissance: the document, sections in insertion order
    r_context,    \* renaissance: shared_context, variable -> iteration bound
    r_iter,       \* renaissance: iterations completed
    r_exec,       \* renaissance: ExecutionResult of the last Execute
    r_toc,        \* renaissance: outputs of synthesize on the current document
    r_response,   \* renaissance: the <execute> blocks of the last response, in order
    r_run,        \* renaissance: the executions made for the last response
    r_changes,    \* renaissance: the document changes logged for the last step
    q_task,       \* manual drive: the task after the step_work_on_doc calls made so far
    q_responses,  \* manual drive: the responses those calls received
    q_result,     \* automated loop: what the run over the same responses returned
    st_state,     \* store: Store.state, [cells, memory, context]
    st_action,    \* store: the action of the last outermost dispatch
    st_last,      \* store: how that dispatch ended
    pn_fields,    \* project tree: ProjectNode.fields, name -> content
    pn_summary,   \* project tree: ProjectNode.summary
    pn_result,    \* project tree: the ContentParseResult add_content returned last
    pn_now,       \* project tree: datetime.now() readings so far
    t_state,      \* task queries: SystemState.cells, id -> cell
    t_next,       \* task queries: what get_next_tasks returned, a list of (id, task)
    t_pc          \* task queries: "idle", "ready", "asked"

v4vars == <<v4_pc, v4_state, v4_prior, v4_response, v4_uuid>>
xvars == <<x_pc, x_state, x_prior, x_response, x_correction, x_final,
           x_path, x_iter, x_uuid, x_history>>
lgvars == <<lg_pc, lg_state>>
dvars == <<d_policy, d_dup, d_sections, d_last>>
s7vars == <<s7_pc, s7_state, s7_uuid, s7_steps>>
rvars == <<r_ordering, r_sections, r_context, r_iter, r_exec, r_toc,
           r_response, r_run, r_changes>>
qvars == <<q_task, q_responses, q_result>>
stvars == <<st_state, st_action, st_last>>
pnvars == <<pn_fields, pn_summary, pn_result, pn_now>>
tvars == <<t_state, t_next, t_pc>>
vars == <<v4vars, xvars, lgvars, dvars, s7vars, rvars, qvars, stvars, pnvars, tvars>>

notv4 == <<xvars, lgvars, dvars, s7vars, rvars, qvars, stvars, pnvars, tvars>>
notx == <<v4vars, lgvars, dvars, s7vars, rvars, qvars, stvars, pnvars, tvars>>
notlg == <<v4vars, xvars, dvars, s7vars, rvars, qvars, stvars, pnvars, tvars>>
notd == <<v4vars, xvars, lgvars, s7vars, rvars, qvars, stvars, pnvars, tvars>>
nots7 == <<v4vars, xvars, lgvars, dvars, rvars, qvars, stvars, pnvars, tvars>>
notr == <<v4vars, xvars, lgvars, dvars, s7vars, qvars, stvars, pnvars, tvars>>
notq == <<v4vars, xvars, lgvars, dvars, s7vars, rvars, stvars, pnvars, tvars>>
notst == <<v4vars, xvars, lgvars, dvars, s7vars, rvars, qvars, pnvars, tvars>>
notpn == <<v4vars, xvars, lgvars, dvars, s7vars, rvars, qvars, stvars, tvars>>
nott == <<v4vars, xvars, lgvars, dvars, s7vars, rvars, qvars, stvars, pnvars>>

None == "None"

(***************************************************************************)
(* Text.  A line is the sequence of its whitespace-separated tokens; a     *)
(* token is a word and whether a ':' directly follows it ("CELL:").        *)
(***************************************************************************)
T(w) == [w |-> w, c |-> FALSE]
C(w) == [w |-> w, c |-> TRUE]

\* str.split(":", 1)[1].strip(): the tokens after the first ':' of the line;
\* FirstColon is 0 when the line has no ':' (the [1] then raises IndexError).
FirstColon(line) ==
    IF \E i \in 1..Len(line) : line[i].c
    THEN CHOOSE i \in 1..Len(line) : line[i].c /\ \A j \in 1..(i - 1) : ~line[j].c
    ELSE 0

AfterColon(line) == SubSeq(line, FirstColon(line) + 1, Len(line))

\* uuid.uuid4(): the n-th value drawn; never equal to an earlier one.
UuidPool ==
    <<"u1", "u2", "u3", "u4", "u5", "u6", "u7", "u8", "u9", "u10", "u11", "u12">>
uuid4(n) == UuidPool[n + 1]

(***************************************************************************)
(* "Final code v4": SystemState, solve, _apply_changes.                    *)
(***************************************************************************)
MaxLines == 2   \* lines per model response
MaxUuid == 2    \* uuid4() values drawn per run

SystemState(cells, current) == [cells |-> cells, current_cell_id |-> current]

Queries == {<<T("q")>>, <<T("Calculate"), T("2+2")>>}

\* Mutant: solve seeds the state with a second, empty "plan" cell.
InitialState_WithPlan(query) ==
    SystemState([id \in {"initial", "plan"} |->
                    IF id = "initial" THEN query ELSE <<>>], "initial")

\* solve, lines 111-122: one cell "initial" holding the query, focused.
InitialState(query) == SystemState([id \in {"initial"} |-> query], "initial")

\* Lines a model may answer with: the advertised change formats, the forms
\* the code accepts, unknown ids, truncated directives, prose and status.
V4Lines ==
    { <<T("-"), T("NEW"), C("CELL"), T("x")>>,
      <<T("-"), T("MODIFY"), T("CELL"), C("initial"), T("y")>>,
      <<T("-"), T("MODIFY"), T("CELL"), T("initial"), C(""), T("y")>>,
      <<T("-"), T("MODIFY"), T("CELL"), T("zz"), C(""), T("y")>>,
      <<T("-"), T("MODIFY"), T("CELL"), T("u1"), C(""), T("y")>>,
      <<T("-"), T("MODIFY"), T("CELL")>>,
      <<T("-"), T("MODIFY"), T("CELL"), T("initial"), T("y")>>,
      <<T("SET"), C("CURRENT"), T("initial")>>,
      <<T("SET"), C("CURRENT"), T("u1")>>,
      <<T("SET"), C("CURRENT"), T("zz")>>,
      <<T("-"), T("SET"), C("CURRENT"), T("u1")>>,
      <<C("REASONING"), T("x")>>,
      <<C("STATUS"), T("SOLVED")>> }

V4Responses == UNION { [1..n -> V4Lines] : n \in 0..MaxLines }

\* solve, line 130: "STATUS: SOLVED" in response
StatusSolved(response) ==
    \E k \in 1..Len(response) : \E i \in 1..(Len(response[k]) - 1) :
        response[k][i] = C("STATUS") /\ response[k][i + 1].w = "SOLVED"

\* _apply_changes, line 140: line.strip().startswith(('-', 'SET'))
IsChange(line) == Len(line) > 0 /\ line[1].w \in {"-", "SET"}

\* change.startswith("- NEW CELL:")
IsNewCell(ch) ==
    Len(ch) >= 3 /\ ch[1] = T("-") /\ ch[2] = T("NEW") /\ ch[3] = C("CELL")

\* change.startswith("- MODIFY CELL")
IsModifyCell(ch) ==
    Len(ch) >= 3 /\ ch[1] = T("-") /\ ch[2] = T("MODIFY") /\ ch[3].w = "CELL"

\* change.startswith("SET CURRENT:")
IsSetCurrent(ch) == Len(ch) >= 2 /\ ch[1] = T("SET") /\ ch[2] = C("CURRENT")

\* `cell_id in new_state.cells` for the text of a token sequence: the keys
\* are "initial" and uuid strings, none of which holds ':' or a space.
InCells(text, cells) == \E id \in DOMAIN cells : text = <<T(id)>>

KeyOf(text) == text[1].w

\* Mutant: the new cell takes the place of the focused cell.
ApplyNewCell_Replaces(acc, ch) ==
    LET cell_id == uuid4(acc.uuid)
    IN  [acc EXCEPT !.cells = [id \in (DOMAIN acc.cells \ {acc.current_cell_id})
                                        \cup {cell_id} |->
                                  IF id = cell_id THEN AfterColon(ch)
                                  ELSE acc.cells[id]],
                    !.uuid = acc.uuid + 1]

\* One turn of the loop at lines 142-157 on the accumulator
\* [cells, current_cell_id, uuid, raised].
ApplyNewCell(acc, ch) ==
    LET cell_id == uuid4(acc.uuid)
    IN  [acc EXCEPT !.cells = [id \in DOMAIN acc.cells \cup {cell_id} |->
                                  IF id = cell_id THEN AfterColon(ch)
                                  ELSE acc.cells[id]],
                    !.uuid = acc.uuid + 1]

ApplyModifyCell(acc, ch) ==
    IF Len(ch) < 4 \/ FirstColon(ch) = 0
    THEN [acc EXCEPT !.raised = TRUE]
    ELSE IF InCells(<<ch[4]>>, acc.cells)
         THEN [acc EXCEPT !.cells[KeyOf(<<ch[4]>>)] = AfterColon(ch)]
         ELSE acc

\* Mutant: SET CURRENT without the `if cell_id in new_state.cells` test.
ApplySetCurrent_Unchecked(acc, ch) ==
    [acc EXCEPT !.current_cell_id = KeyOf(AfterColon(ch))]

ApplySetCurrent(acc, ch) ==
    IF InCells(AfterColon(ch), acc.cells)
    THEN [acc EXCEPT !.current_cell_id = KeyOf(AfterColon(ch))]
    ELSE acc

ApplyChange(acc, ch) ==
    IF acc.raised THEN acc
    ELSE IF IsNewCell(ch) THEN ApplyNewCell(acc, ch)
    ELSE IF IsModifyCell(ch) THEN ApplyModifyCell(acc, ch)
    ELSE IF IsSetCurrent(ch) THEN ApplySetCurrent(acc, ch)
    ELSE acc

RECURSIVE ApplyAll(_, _)
ApplyAll(acc, changes) ==
    IF changes = <<>> THEN acc
    ELSE ApplyAll(ApplyChange(acc, Head(changes)), Tail(changes))

\* Mutant: new_state = state, the changes are made on the object given.
apply_changes_NoCopy(state, response, n) ==
    LET r == ApplyAll([cells |-> state.cells,
                       current_cell_id |-> state.current_cell_id,
                       uuid |-> n, raised |-> FALSE],
                      SelectSeq(response, IsChange))
    IN  [cells |-> r.cells, current_cell_id |-> r.current_cell_id,
         uuid |-> r.uuid, raised |-> r.raised,
         given |-> SystemState(r.cells, r.current_cell_id)]

\* _apply_changes(state, response) with n uuids drawn before the call:
\* [cells, current_cell_id, uuid, raised, given]; raised = an IndexError left
\* it; given = the object `state` as the call leaves it.  The changes are
\* made on new_state = deepcopy(state) (line 139), which shares nothing with
\* `state`.
apply_changes(state, response, n) ==
    LET r == ApplyAll([cells |-> state.cells,
                       current_cell_id |-> state.current_cell_id,
                       uuid |-> n, raised |-> FALSE],
                      SelectSeq(response, IsChange))
    IN  [cells |-> r.cells, current_cell_id |-> r.current_cell_id,
         uuid |-> r.uuid, raised |-> r.raised, given |-> state]

V4Idle ==
    /\ v4_pc = "idle"
    /\ v4_state = SystemState(<<>>, None)
    /\ v4_prior = SystemState(<<>>, None)
    /\ v4_response = <<>>
    /\ v4_uuid = 0

V4Init ==
    /\ v4_pc = "loop"
    /\ \E query \in Queries : v4_state = InitialState(query)
    /\ v4_prior = SystemState(<<>>, None)
    /\ v4_response = <<>>
    /\ v4_uuid = 0

\* solve, lines 125-128: format_state, then llm.get_completion answers.
V4Ask ==
    /\ v4_pc = "loop"
    /\ \E response \in V4Responses : v4_response' = response
    /\ v4_pc' = "got"
    /\ UNCHANGED <<v4_state, v4_prior, v4_uuid, notv4>>

\* solve, lines 130-131 and 135: "STATUS: SOLVED" ends the loop.
V4Solved ==
    /\ v4_pc = "got"
    /\ StatusSolved(v4_response)
    /\ v4_pc' = "solved"
    /\ UNCHANGED <<v4_state, v4_prior, v4_response, v4_uuid, notv4>>

\* solve, line 133: state = self._apply_changes(state, response).  An
\* IndexError leaves solve; otherwise the loop goes round (`response` is
\* dead until the next get_completion overwrites it).
V4Apply ==
    /\ v4_pc = "got"
    /\ ~StatusSolved(v4_response)
    /\ LET r == apply_changes(v4_state, v4_response, v4_uuid)
       IN  /\ r.uuid <= MaxUuid
           /\ v4_prior' = r.given
           /\ v4_uuid' = r.uuid
           /\ IF r.raised
              THEN /\ v4_pc' = "raised"
                   /\ UNCHANGED <<v4_state, v4_response>>
              ELSE /\ v4_pc' = "loop"
                   /\ v4_state' = SystemState(r.cells, r.current_cell_id)
                   /\ v4_response' = <<>>
    /\ UNCHANGED notv4

(***************************************************************************)
(* "Final code v10 self improving": solve with correction and fallback.    *)
(***************************************************************************)
MaxIter == 3    \* iterations of v10 solve explored

\* A model response, by what the solver reads in it: whether its upper-cased
\* text holds "SOLVED", whether it holds the "NEXT STATE:" marker, whether
\* the block after the marker is well formed, the CELL / CURRENT CELL lines
\* of the block (cur = position of the CURRENT CELL line, 0 when absent).
Resp(text, solved, marker, wf, cells, cur) ==
    [text |-> text, solved |-> solved, marker |-> marker, wf |-> wf,
     cells |-> cells, cur |-> cur]

XResponses ==
    { Resp("", FALSE, FALSE, FALSE, <<>>, 0),
      Resp("lorem ipsum", FALSE, FALSE, FALSE, <<>>, 0),
      Resp("Solved: 4", TRUE, FALSE, FALSE, <<>>, 0),
      Resp("NEXT STATE: CELL: a CURRENT CELL: b END STATE",
           FALSE, TRUE, TRUE, <<"a", "b">>, 2),
      Resp("NEXT STATE: CELL: a END STATE", FALSE, TRUE, TRUE, <<"a">>, 0),
      Resp("NEXT STATE: CELL END STATE", FALSE, TRUE, FALSE, <<>>, 0),
      Resp("unsolved NEXT STATE: CURRENT CELL: c END STATE",
           TRUE, TRUE, TRUE, <<"c">>, 1) }

\* A local of solve that no get_completion has assigned yet.
NoResponse == Resp(None, FALSE, FALSE, FALSE, <<>>, 0)

\* solve, line 69: "SOLVED" in response.upper()
ContainsSolved(response) == response.solved

\* parse_state, lines 107-108: "NEXT STATE:" not in response
MissingMarker(response) == ~response.marker

\* _try_parse_state(response) with n uuids drawn before the call:
\* (False, issues) or (True, SystemState) with a fresh id per listed cell.
try_parse_state(response, n) ==
    IF MissingMarker(response)
    THEN [success |-> FALSE, result |-> "Missing 'NEXT STATE:' marker", uuid |-> n]
    ELSE IF ~response.wf
    THEN [success |-> FALSE, result |-> "MalformedBlock", uuid |-> n]
    ELSE [success |-> TRUE,
          result |-> SystemState(
              [id \in {uuid4(n + i - 1) : i \in 1..Len(response.cells)} |->
                  <<"Cell", response.cells[CHOOSE i \in 1..Len(response.cells) :
                                              uuid4(n + i - 1) = id]>>],
              IF response.cur = 0 THEN None ELSE uuid4(n + response.cur - 1)),
          uuid |-> n + Len(response.cells)]

\* _create_fallback_state(state, response): the prior state plus one new
\* Unparsed_Response section holding the raw response; focus unchanged.
create_fallback_state(state, response, n) ==
    SystemState(
        [id \in DOMAIN state.cells \cup {uuid4(n)} |->
            IF id = uuid4(n) THEN <<"Unparsed_Response", response.text>>
            ELSE state.cells[id]],
        state.current_cell_id)

\* History Ledger append: one HistoryEntry per committed state.
save_history(history, state, response) ==
    Append(history, [state_snapshot |-> state,
                     raw_model_response |-> response.text,
                     iteration_index |-> Len(history) + 1])

\* Mutant: the new state is adopted without a ledger entry.
XCommit_Unrecorded(state, response, n) ==
    /\ x_state' = state
    /\ x_uuid' = n
    /\ x_iter' = x_iter + 1
    /\ x_history' = x_history
    /\ x_pc' = "Normal"

\* The loop body has assigned `state`: the iteration is complete.
XCommit(state, response, n) ==
    /\ x_state' = state
    /\ x_uuid' = n
    /\ x_iter' = x_iter + 1
    /\ x_history' = save_history(x_history, state, response)
    /\ x_pc' = "Normal"

XInit ==
    /\ x_pc = "Normal"
    /\ \E query \in {"q", "Calculate 2+2"} :
          x_state = SystemState([id \in {"initial"} |-> <<"Cell", query>>],
                                "initial")
    /\ x_prior = SystemState(<<>>, None)
    /\ x_response = NoResponse
    /\ x_correction = NoResponse
    /\ x_final = NoResponse
    /\ x_path = <<>>
    /\ x_iter = 0
    /\ x_uuid = 0
    /\ x_history = <<>>

\* Mutant: a main response that fails to parse goes straight to the
\* fallback prompt.
XMain_SkipCorrection ==
    /\ x_pc = "Normal"
    /\ x_iter < MaxIter
    /\ \E response \in XResponses :
          LET p == try_parse_state(response, x_uuid)
          IN  /\ x_response' = response
              /\ x_correction' = NoResponse
              /\ x_final' = NoResponse
              /\ x_prior' = x_state
              /\ x_path' = <<"Normal">>
              /\ IF ContainsSolved(response)
                 THEN /\ x_pc' = "returned"
                      /\ UNCHANGED <<x_state, x_iter, x_uuid, x_history>>
                 ELSE IF p.success
                 THEN XCommit(p.result, response, p.uuid)
                 ELSE /\ x_pc' = "Fallback"
                      /\ UNCHANGED <<x_state, x_iter, x_uuid, x_history>>
    /\ UNCHANGED notx

\* Mutant: a main response that fails to parse makes solve return.
XMain_ReturnOnFailure ==
    /\ x_pc = "Normal"
    /\ x_iter < MaxIter
    /\ \E response \in XResponses :
          LET p == try_parse_state(response, x_uuid)
          IN  /\ x_response' = response
              /\ x_correction' = NoResponse
              /\ x_final' = NoResponse
              /\ x_prior' = x_state
              /\ x_path' = <<"Normal">>
              /\ IF ContainsSolved(response) \/ ~p.success
                 THEN /\ x_pc' = "returned"
                      /\ UNCHANGED <<x_state, x_iter, x_uuid, x_history>>
                 ELSE XCommit(p.result, response, p.uuid)
    /\ UNCHANGED notx

\* solve, lines 57-88, keeps no log and no warning list: whatever it
\* discards, it records nothing.
RecordedWarnings == {}

\* Mutant: the main response is parsed and adopted before SOLVED is tested.
XMain_AppliesBeforeSolved ==
    /\ x_pc = "Normal"
    /\ x_iter < MaxIter
    /\ \E response \in XResponses :
          LET p == try_parse_state(response, x_uuid)
          IN  /\ x_response' = response
              /\ x_correction' = NoResponse
              /\ x_final' = NoResponse
              /\ x_prior' = x_state
              /\ x_path' = <<"Normal">>
              /\ IF ContainsSolved(response)
                 THEN /\ x_pc' = "returned"
                      /\ x_state' = IF p.success THEN p.result ELSE x_state
                      /\ x_uuid' = p.uuid
                      /\ UNCHANGED <<x_iter, x_history>>
                 ELSE IF p.success
                 THEN XCommit(p.result, response, p.uuid)
                 ELSE /\ x_pc' = "Correcting1"
                      /\ UNCHANGED <<x_state, x_iter, x_uuid, x_history>>
    /\ UNCHANGED notx

\* Mutant: the loop goes on after a response with SOLVED.
XMain_AfterReturn ==
    /\ x_pc \in {"Normal", "returned"}
    /\ x_iter < MaxIter
    /\ \E response \in XResponses :
          LET p == try_parse_state(response, x_uuid)
          IN  /\ x_response' = response
              /\ x_correction' = NoResponse
              /\ x_final' = NoResponse
              /\ x_prior' = x_state
              /\ x_path' = <<"Normal">>
              /\ IF ContainsSolved(response)
                 THEN /\ x_pc' = "returned"
                      /\ UNCHANGED <<x_state, x_iter, x_uuid, x_history>>
                 ELSE IF p.success
                 THEN XCommit(p.result, response, p.uuid)
                 ELSE /\ x_pc' = "Correcting1"
                      /\ UNCHANGED <<x_state, x_iter, x_uuid, x_history>>
    /\ UNCHANGED notx

\* solve, lines 64-75: main prompt; SOLVED returns, a parsed state is
\* adopted, anything else goes on to the correction prompt.
XMain ==
    /\ x_pc = "Normal"
    /\ x_iter < MaxIter
    /\ \E response \in XResponses :
          LET p == try_parse_state(response, x_uuid)
          IN  /\ x_response' = response
              /\ x_correction' = NoResponse
              /\ x_final' = NoResponse
              /\ x_prior' = x_state
              /\ x_path' = <<"Normal">>
              /\ IF ContainsSolved(response)
                 THEN /\ x_pc' = "returned"
                      /\ UNCHANGED <<x_state, x_iter, x_uuid, x_history>>
                 ELSE IF p.success
                 THEN XCommit(p.result, response, p.uuid)
                 ELSE /\ x_pc' = "Correcting1"
                      /\ UNCHANGED <<x_state, x_iter, x_uuid, x_history>>
    /\ UNCHANGED notx

\* Mutant: a failed correction response is answered by another correction
\* prompt.
XCorrect_Retry ==
    /\ x_pc = "Correcting1"
    /\ \E correction_response \in XResponses :
          LET p == try_parse_state(correction_response, x_uuid)
          IN  /\ x_correction' = correction_response
              /\ x_path' = Append(x_path, "Correcting1")
              /\ IF p.success
                 THEN XCommit(p.result, correction_response, p.uuid)
                 ELSE /\ x_pc' = "Correcting1"
                      /\ UNCHANGED <<x_state, x_iter, x_uuid, x_history>>
    /\ UNCHANGED <<x_response, x_final, x_prior, notx>>

\* Mutant: the failed correction attempt is archived as well.
XCorrect_LogsAttempt ==
    /\ x_pc = "Correcting1"
    /\ \E correction_response \in XResponses :
          LET p == try_parse_state(correction_response, x_uuid)
          IN  /\ x_correction' = correction_response
              /\ x_path' = Append(x_path, "Correcting1")
              /\ IF p.success
                 THEN XCommit(p.result, correction_response, p.uuid)
                 ELSE /\ x_pc' = "Fallback"
                      /\ x_history' = save_history(x_history, x_state,
                                                   correction_response)
                      /\ UNCHANGED <<x_state, x_iter, x_uuid>>
    /\ UNCHANGED <<x_response, x_final, x_prior, notx>>

\* solve, lines 76-85: correction prompt, issued once.
XCorrect ==
    /\ x_pc = "Correcting1"
    /\ \E correction_response \in XResponses :
          LET p == try_parse_state(correction_response, x_uuid)
          IN  /\ x_correction' = correction_response
              /\ x_path' = Append(x_path, "Correcting1")
              /\ IF p.success
                 THEN XCommit(p.result, correction_response, p.uuid)
                 ELSE /\ x_pc' = "Fallback"
                      /\ UNCHANGED <<x_state, x_iter, x_uuid, x_history>>
    /\ UNCHANGED <<x_response, x_final, x_prior, notx>>

\* Mutant: the fallback state is built from final_response.
XFallback_StoresFinal ==
    /\ x_pc = "Fallback"
    /\ \E final_response \in XResponses :
          LET p == try_parse_state(final_response, x_uuid)
          IN  /\ x_final' = final_response
              /\ IF p.success
                 THEN /\ x_path' = Append(x_path, "Fallback")
                      /\ XCommit(p.result, final_response, p.uuid)
                 ELSE /\ x_path' = x_path \o <<"Fallback", "GiveUp">>
                      /\ XCommit(create_fallback_state(x_state, final_response,
                                                       x_uuid),
                                 final_response, x_uuid + 1)
    /\ UNCHANGED <<x_response, x_correction, x_prior, notx>>

\* solve, lines 86-88: fallback prompt; when its response fails as well the
\* fallback state is built from the prior state and the main response.
XFallback ==
    /\ x_pc = "Fallback"
    /\ \E final_response \in XResponses :
          LET p == try_parse_state(final_response, x_uuid)
          IN  /\ x_final' = final_response
              /\ IF p.success
                 THEN /\ x_path' = Append(x_path, "Fallback")
                      /\ XCommit(p.result, final_response, p.uuid)
                 ELSE /\ x_path' = x_path \o <<"Fallback", "GiveUp">>
                      /\ XCommit(create_fallback_state(x_state, x_response, x_uuid),
                                 x_response, x_uuid + 1)
    /\ UNCHANGED <<x_response, x_correction, x_prior, notx>>

\* The prompt that would be issued at the current position of solve.
XTier == IF x_pc = "Normal" THEN <<"Normal">> ELSE Append(x_path, x_pc)

\* Number of model calls that have raised in the current iteration.
Failures(path) == Cardinality({i \in DOMAIN path : path[i] = "ProviderFailure"})

\* Retries solve makes after a model call has raised: the calls at lines
\* 65, 76 and 86 stand outside any try or loop of their own.
max_retries == 0

\* Mutant: a model call that raises is issued again.
XRaise_Retry ==
    /\ x_pc \in {"Normal", "Correcting1", "Fallback"}
    /\ x_pc = "Normal" => x_iter < MaxIter
    /\ Failures(x_path) < max_retries + 2
    /\ x_path' = Append(x_path, "ProviderFailure")
    /\ UNCHANGED <<x_pc, x_state, x_prior, x_response, x_correction, x_final,
                   x_iter, x_uuid, x_history, notx>>

\* Mutant: the ledger is local to solve and goes with its frame.
XRaise_DropsLedger ==
    /\ x_pc \in {"Normal", "Correcting1", "Fallback"}
    /\ x_pc = "Normal" => x_iter < MaxIter
    /\ x_pc' = "raised"
    /\ x_path' = Append(XTier, "ProviderFailure")
    /\ x_history' = <<>>
    /\ UNCHANGED <<x_state, x_prior, x_response, x_correction, x_final,
                   x_iter, x_uuid, notx>>

\* solve, lines 65, 76, 86: llm.get_completion raises; no handler encloses
\* the call, so the exception leaves solve at once.
XRaise ==
    /\ x_pc \in {"Normal", "Correcting1", "Fallback"}
    /\ x_pc = "Normal" => x_iter < MaxIter
    /\ x_pc' = "raised"
    /\ x_path' = Append(XTier, "ProviderFailure")
    /\ UNCHANGED <<x_state, x_prior, x_response, x_correction, x_final,
                   x_iter, x_uuid, x_history, notx>>

(***************************************************************************)
(* "LangGraph and LangChain v2": ProjectSystem workflow nodes.             *)
(***************************************************************************)
MaxHistory == 6   \* entries of SystemState.history explored

\* A Python value held in the history or in a node: a string or a dict
\* (a set of <<key, value>> pairs), or the list json.loads gives for "[1]".
Str(text) == [kind |-> "str", text |-> text, pairs |-> {}]
Dict(pairs) == [kind |-> "dict", text |-> "", pairs |-> pairs]
List(text) == [kind |-> "list", text |-> text, pairs |-> {}]

HistoryEntry(type, status, content) ==
    [type |-> type, status |-> status, content |-> content]

\* What llm.predict may return where JSON is asked for.
Generations ==
    {"{k: v1}", "{k: v2, j: w}", "{parent_id: root}", "[1]", "not json", ""}

\* json.loads: the value, or JSONDecodeError.
json_loads(text) ==
    CASE text = "{k: v1}" -> [ok |-> TRUE, value |-> Dict({<<"k", "v1">>})]
      [] text = "{k: v2, j: w}" ->
            [ok |-> TRUE, value |-> Dict({<<"k", "v2">>, <<"j", "w">>})]
      [] text = "{parent_id: root}" ->
            [ok |-> TRUE, value |-> Dict({<<"parent_id", "root">>})]
      [] text = "[1]" -> [ok |-> TRUE, value |-> List("[1]")]
      [] OTHER -> [ok |-> FALSE, value |-> Str(text)]

\* Truth value of a Python object (`if last_parsed:`).
Truthy(v) == IF v.kind = "dict" THEN v.pairs # {} ELSE v.text # ""

\* dict.update(other) for a dict `other`.
dict_update(pairs, other) ==
    {p \in pairs : \A q \in other : q[1] # p[1]} \cup other

\* next((h["content"] for h in reversed(history) if h["type"] == type), None)
LastOfType(history, type) ==
    LET idx == {i \in 1..Len(history) : history[i].type = type}
    IN  IF idx = {} THEN Str("")
        ELSE history[CHOOSE i \in idx : \A j \in idx : j <= i].content

\* create_project, lines 45-50.
create_project(goal) ==
    [nodes |-> [id \in {"root"} |->
                  [goal |-> goal, content |-> {}, summary |-> "", parent_id |-> None]],
     current_focus_id |-> "root",
     history |-> <<>>]

LGIdle == lg_pc = "idle" /\ lg_state = create_project("")

LGInit == lg_pc = "analyze_state" /\ lg_state = create_project("goal")

\* _analyze_current_state, lines 73-104.
LGAnalyze ==
    /\ lg_pc = "analyze_state"
    /\ Len(lg_state.history) < MaxHistory
    /\ \E analysis \in {"add content", "{action: 1}"} :
          lg_state' = [lg_state EXCEPT !.history =
              Append(@, HistoryEntry("analysis", "", Str(analysis)))]
    /\ lg_pc' = "generate_content"
    /\ UNCHANGED notlg

\* _generate_content, lines 106-121.
LGGenerate ==
    /\ lg_pc = "generate_content"
    /\ Len(lg_state.history) < MaxHistory
    /\ \E content \in Generations :
          lg_state' = [lg_state EXCEPT !.history =
              Append(@, HistoryEntry("generation", "", Str(content)))]
    /\ lg_pc' = "parse_content"
    /\ UNCHANGED notlg

\* Mutant: the parsing result overwrites the generation entry it parsed.
LGParse_Overwrites ==
    /\ lg_pc = "parse_content"
    /\ Len(lg_state.history) < MaxHistory
    /\ LET last_generation == LastOfType(lg_state.history, "generation")
           parsed == json_loads(last_generation.text)
       IN  IF ~Truthy(last_generation)
           THEN UNCHANGED lg_state
           ELSE lg_state' = [lg_state EXCEPT !.history[Len(lg_state.history)] =
                   HistoryEntry("parsing", "success", parsed.value)]
    /\ lg_pc' \in {"update_structure", "analyze_state"}
    /\ UNCHANGED notlg

\* _parse_content, lines 123-157; the edge out of it is one of
\* "update_structure" and "analyze_state" (lines 66).
LGParse ==
    /\ lg_pc = "parse_content"
    /\ Len(lg_state.history) < MaxHistory
    /\ LET last_generation == LastOfType(lg_state.history, "generation")
           parsed == json_loads(last_generation.text)
       IN  IF ~Truthy(last_generation)
           THEN UNCHANGED lg_state
           ELSE IF parsed.ok
           THEN lg_state' = [lg_state EXCEPT !.history =
                   Append(@, HistoryEntry("parsing", "success", parsed.value))]
           ELSE \E recovery \in Generations :
                   lg_state' = [lg_state EXCEPT !.history =
                       Append(@, HistoryEntry("parsing", "recovered", Str(recovery)))]
    /\ lg_pc' \in {"update_structure", "analyze_state"}
    /\ UNCHANGED notlg

\* get_path_to_current, lines 31-38: the ids from node_id up to the root,
\* nearest first; `ends` is FALSE when the walk has not met a node without
\* parent after `fuel` steps.
RECURSIVE PathFrom(_, _, _)
PathFrom(nodes, node_id, fuel) ==
    IF node_id = None THEN [ends |-> TRUE, path |-> <<>>]
    ELSE IF fuel = 0 THEN [ends |-> FALSE, path |-> <<>>]
    ELSE LET rest == PathFrom(nodes, nodes[node_id].parent_id, fuel - 1)
         IN  [ends |-> rest.ends, path |-> <<node_id>> \o rest.path]

get_path_to_current(state) ==
    PathFrom(state.nodes, state.current_focus_id,
             Cardinality(DOMAIN state.nodes))

\* Mutant: the keys of the parsed dict are set as fields of the node, its
\* parent_id included.
LGUpdate_SetsParent ==
    /\ lg_pc = "update_structure"
    /\ LET last_parsed == LastOfType(lg_state.history, "parsing")
           current == lg_state.current_focus_id
       IN  IF ~Truthy(last_parsed)
           THEN lg_pc' = "propagate_summaries" /\ UNCHANGED lg_state
           ELSE IF last_parsed.kind = "dict"
           THEN /\ lg_pc' = "propagate_summaries"
                /\ lg_state' = [lg_state EXCEPT
                      !.nodes[current].content = dict_update(@, last_parsed.pairs),
                      !.nodes[current].parent_id =
                          IF \E q \in last_parsed.pairs : q[1] = "parent_id"
                          THEN (CHOOSE q \in last_parsed.pairs : q[1] = "parent_id")[2]
                          ELSE @]
           ELSE lg_pc' = "raised" /\ UNCHANGED lg_state
    /\ UNCHANGED notlg

\* _update_structure, lines 159-172: dict.update raises on a value that is
\* no dict (a recovered string, a JSON list).
LGUpdate ==
    /\ lg_pc = "update_structure"
    /\ LET last_parsed == LastOfType(lg_state.history, "parsing")
           current == lg_state.current_focus_id
       IN  IF ~Truthy(last_parsed)
           THEN lg_pc' = "propagate_summaries" /\ UNCHANGED lg_state
           ELSE IF last_parsed.kind = "dict"
           THEN /\ lg_pc' = "propagate_summaries"
                /\ lg_state' = [lg_state EXCEPT !.nodes[current].content =
                                   dict_update(@, last_parsed.pairs)]
           ELSE lg_pc' = "raised" /\ UNCHANGED lg_state
    /\ UNCHANGED notlg

\* _propagate_summaries, lines 174-208: the focused node and its ancestors
\* get a new summary.
LGPropagate ==
    /\ lg_pc = "propagate_summaries"
    /\ \E summary \in {"s1", "s2"} :
          lg_state' = [lg_state EXCEPT !.nodes[lg_state.current_focus_id].summary =
                          summary]
    /\ lg_pc' = "analyze_state"
    /\ UNCHANGED notlg

(***************************************************************************)
(* Document Store with named sections (renaissance process_llm_response).  *)
(***************************************************************************)
MaxBatch == 2     \* NewSection directives per response
MaxContent == 2   \* content blocks a section may accumulate

Chars == {"P", "p", "L", "l", " ", "_"}

\* str.lower() on one character.
Lower(c) == CASE c = "P" -> "p" [] c = "L" -> "l" [] OTHER -> c

\* Case/space/underscore collapse of a section name.
Normalize(name) ==
    [i \in 1..Len(name) |-> IF name[i] = " " THEN "_" ELSE Lower(name[i])]

SectionNames ==
    { <<"P", "l">>, <<"p", "L">>, <<"p", " ", "l">>, <<"P", "_", "l">> }

NewSection(name, content) == [name |-> name, content |-> content]

Directives == {NewSection(n, <<c>>) : n \in SectionNames, c \in {"text"}}

Batches == UNION { [1..n -> Directives] : n \in 0..MaxBatch }

\* The key under which the configured policy files a name.
PolicyKey(policy, name) ==
    IF policy = "CaseInsensitiveNormalize" THEN Normalize(name) ELSE name

\* The section of `sections` a name denotes under the policy, if any.
Present(policy, sections, name) ==
    {s \in DOMAIN sections : PolicyKey(policy, s) = PolicyKey(policy, name)}

\* Mutant: NewSection adds its section without looking for the name.
ApplyNewSection_NoLookup(policy, dup, acc, d) ==
    [acc EXCEPT !.sections = [s \in DOMAIN acc.sections \cup {d.name} |->
                                 IF s = d.name THEN d.content ELSE acc.sections[s]]]

\* One NewSection on the accumulator [sections, merged, rejected].
ApplyNewSection(policy, dup, acc, d) ==
    LET found == Present(policy, acc.sections, d.name)
    IN  IF found = {}
        THEN [acc EXCEPT !.sections = [s \in DOMAIN acc.sections \cup {d.name} |->
                 IF s = d.name THEN d.content ELSE acc.sections[s]]]
        ELSE LET s == CHOOSE t \in found : TRUE
             IN  CASE dup = "append" ->
                        [acc EXCEPT !.sections[s] = @ \o d.content,
                                    !.merged = @ + 1]
                   [] dup = "replace" ->
                        [acc EXCEPT !.sections[s] = d.content, !.merged = @ + 1]
                   [] OTHER -> [acc EXCEPT !.rejected = TRUE]

RECURSIVE ApplyBatch(_, _, _, _)
ApplyBatch(policy, dup, acc, batch) ==
    IF batch = <<>> \/ acc.rejected THEN acc
    ELSE ApplyBatch(policy, dup, ApplyNewSection(policy, dup, acc, Head(batch)),
                    Tail(batch))

\* apply(state, directives): the new sections, or the prior ones when a
\* directive is rejected.
apply(policy, dup, sections, batch) ==
    LET r == ApplyBatch(policy, dup,
                        [sections |-> sections, merged |-> 0, rejected |-> FALSE],
                        batch)
    IN  IF r.rejected THEN [r EXCEPT !.sections = sections] ELSE r

DIdle ==
    /\ d_policy = "idle"
    /\ d_dup = "idle"
    /\ d_sections = <<>>
    /\ d_last = [merged |-> 0, rejected |-> FALSE]

DInit ==
    /\ d_policy \in {"CaseInsensitiveNormalize", "Strict"}
    /\ d_dup \in {"append", "replace", "reject"}
    /\ d_sections = <<>>
    /\ d_last = [merged |-> 0, rejected |-> FALSE]

\* One response's NewSection directives reach the store.
DApply ==
    /\ d_policy # "idle"
    /\ \E batch \in Batches :
          LET r == apply(d_policy, d_dup, d_sections, batch)
          IN  /\ \A s \in DOMAIN r.sections : Len(r.sections[s]) <= MaxContent
              /\ d_sections' = r.sections
              /\ d_last' = [merged |-> r.merged, rejected |-> r.rejected]
    /\ UNCHANGED <<d_policy, d_dup, notd>>

(***************************************************************************)
(* "Final code functional including other libraries capabilities":         *)
(* parse_state with TASK lines, solve_step.                                *)
(***************************************************************************)
MaxSteps == 3       \* solve_step calls explored
MaxStateLines == 2  \* lines between NEXT STATE: and END STATE

\* A line of the state block, by what parse_state reads in it: a TASK line
\* (whether it holds a '{', whether the text from the '{' on is JSON,
\* whether that JSON has "description"), or a CELL / TOOL line.
TaskLine(brace, json, description) ==
    [kind |-> "TASK", brace |-> brace, json |-> json, description |-> description]

StateLines ==
    { TaskLine(TRUE, TRUE, TRUE),      \* TASK: {"description": "d", "priority": 1}
      TaskLine(TRUE, TRUE, FALSE),     \* TASK: {"priority": 1}
      TaskLine(TRUE, FALSE, FALSE),    \* TASK: {description
      TaskLine(FALSE, FALSE, FALSE),   \* TASK: description
      [kind |-> "CELL", brace |-> FALSE, json |-> FALSE, description |-> FALSE] }

\* The responses that hold the marker: SOLVED or not, and the state block.
StepResponses ==
    { [solved |-> s, lines |-> l] :
        s \in BOOLEAN, l \in UNION { [1..n -> StateLines] : n \in 0..MaxStateLines } }

CellContent(content, result) == [content |-> content, result |-> result]

\* create_task, lines 73-79: args["description"] raises KeyError; otherwise
\* json.dumps raises TypeError on task.__dict__, whose status is a TaskStatus
\* and whose dependencies is a set.
create_task(line) ==
    IF ~line.description THEN [raised |-> TRUE, e |-> "KeyError"]
    ELSE [raised |-> TRUE, e |-> "TypeError"]

\* The try block of lines 128-136 up to its first exception: the exception
\* and whether line 132 had bound cell_id by then.
TryTask(line) ==
    IF ~line.brace THEN [raised |-> TRUE, e |-> "IndexError", bound |-> FALSE]
    ELSE IF ~line.json THEN [raised |-> TRUE, e |-> "JSONDecodeError", bound |-> FALSE]
    ELSE [raised |-> create_task(line).raised, e |-> create_task(line).e,
          bound |-> TRUE]

\* One TASK line, lines 127-139, on the accumulator
\* [cells, cell_id, uuid, raised]; cell_id = None while the local is unbound,
\* and the except clause then raises UnboundLocalError out of parse_state.
ParseTaskLine(acc, line) ==
    LET t == TryTask(line)
        id == IF t.bound THEN uuid4(acc.uuid) ELSE acc.cell_id
        n == IF t.bound THEN acc.uuid + 1 ELSE acc.uuid
    IN  IF ~t.raised
        THEN [acc EXCEPT !.uuid = n, !.cell_id = id,
                         !.cells = [c \in DOMAIN acc.cells \cup {id} |->
                                       IF c = id THEN CellContent("Task", "Task created")
                                       ELSE acc.cells[c]]]
        ELSE IF id = None
        THEN [acc EXCEPT !.raised = TRUE]
        ELSE [acc EXCEPT !.uuid = n, !.cell_id = id,
                         !.cells = [c \in DOMAIN acc.cells \cup {id} |->
                                       IF c = id
                                       THEN CellContent(<<"Error creating task", t.e>>, None)
                                       ELSE acc.cells[c]]]

\* The loop of lines 120-147: TOOL and CELL lines are passed over.
RECURSIVE ParseLines(_, _)
ParseLines(acc, lines) ==
    IF lines = <<>> \/ acc.raised THEN acc
    ELSE ParseLines(IF Head(lines).kind = "TASK"
                    THEN ParseTaskLine(acc, Head(lines)) ELSE acc,
                    Tail(lines))

\* parse_state(response, current_state) for a response with the marker, n
\* uuids drawn before the call.
parse_state(response, n) ==
    ParseLines([cells |-> <<>>, cell_id |-> None, uuid |-> n, raised |-> FALSE],
               response.lines)

S7Idle ==
    /\ s7_pc = "idle"
    /\ s7_state = <<>>
    /\ s7_uuid = 0
    /\ s7_steps = 0

S7Init ==
    /\ s7_pc = "step"
    /\ s7_state = [id \in {"initial"} |-> CellContent("What is 2+2?", None)]
    /\ s7_uuid = 0
    /\ s7_steps = 0

\* solve_step, lines 176-179: a response that holds SOLVED returns
\* (True, state).
S7Solved ==
    /\ s7_pc = "step"
    /\ \E response \in StepResponses : response.solved
    /\ s7_pc' = "solved"
    /\ UNCHANGED <<s7_state, s7_uuid, s7_steps, nots7>>

\* solve_step, lines 176-183: the response is parsed and the parsed state
\* returned; an exception of parse_state leaves solve_step.
S7Step ==
    /\ s7_pc = "step"
    /\ s7_steps < MaxSteps
    /\ \E response \in StepResponses :
          /\ ~response.solved
          /\ LET r == parse_state(response, s7_uuid)
             IN  IF r.raised
                 THEN s7_pc' = "raised" /\ UNCHANGED <<s7_state, s7_uuid, s7_steps>>
                 ELSE /\ s7_pc' = "step"
                      /\ s7_state' = r.cells
                      /\ s7_uuid' = r.uuid
                      /\ s7_steps' = s7_steps + 1
    /\ UNCHANGED nots7

(***************************************************************************)
(* renaissance doc_processor: step_work_on_doc with Execute directives     *)
(* (Execution Bridge, shared_context) and generate_table_of_contents       *)
(* (Table-of-Contents Synthesizer).                                        *)
(***************************************************************************)
MaxDocIter == 2      \* iterations of step_work_on_doc explored
MaxDirectives == 2   \* directives per response
MaxCalls == 2        \* synthesize calls on one document state

Section(name, content, iteration) ==
    [name |-> name, content |-> content, created_at_iteration |-> iteration]

\* Directives of a response: <new_section name=...> and <execute>.
NewSectionTag(name, content) == [tag |-> "new_section", name |-> name, content |-> content]
ExecuteTag(code) == [tag |-> "execute", name |-> "Output", content |-> <<code>>]

DocDirectives ==
    { NewSectionTag("Plan", <<>>), NewSectionTag("Analysis", <<"text">>) }
        \cup { ExecuteTag(code) : code \in {"x = 1", "print(x)"} }

DocResponses == UNION { [1..n -> DocDirectives] : n \in 0..MaxDirectives }

\* execute(code, shared_context) at iteration i:
\* ExecutionResult{stdout, raised_error, updated_context}.
execute(code, context, i) ==
    CASE code = "x = 1" ->
            [stdout |-> "", raised_error |-> None,
             updated_context |-> [v \in DOMAIN context \cup {"x"} |->
                                     IF v = "x" THEN i ELSE context[v]]]
      [] code = "print(x)" ->
            IF "x" \in DOMAIN context
            THEN [stdout |-> "1", raised_error |-> None, updated_context |-> context]
            ELSE [stdout |-> "", raised_error |-> "NameError",
                  updated_context |-> context]
      [] OTHER ->
            [stdout |-> "", raised_error |-> "ZeroDivisionError",
             updated_context |-> context]

\* Position of the section called name, 0 when there is none.
IndexOf(sections, name) ==
    IF \E k \in 1..Len(sections) : sections[k].name = name
    THEN CHOOSE k \in 1..Len(sections) : sections[k].name = name
    ELSE 0

\* A content update of the section called name, created at iteration i
\* when it does not exist.
PutSection(sections, name, content, i) ==
    IF IndexOf(sections, name) = 0
    THEN Append(sections, Section(name, content, i))
    ELSE [sections EXCEPT ![IndexOf(sections, name)].content = content]

\* Bindings of `b` laid over those of `a` (dict.update).
Merge(a, b) ==
    [v \in DOMAIN a \cup DOMAIN b |-> IF v \in DOMAIN b THEN b[v] ELSE a[v]]

\* Mutant: the Executes of one response all start from the context the
\* response found, and their contexts are merged afterwards.
ApplyDirective_Concurrent(acc, d, i) ==
    IF d.tag = "new_section"
    THEN [acc EXCEPT !.sections = PutSection(acc.sections, d.name, d.content, i)]
    ELSE LET start == IF acc.run = <<>> THEN acc.context ELSE acc.run[1].given
             r == execute(d.content[1], start, i)
         IN  [sections |-> PutSection(acc.sections, d.name,
                               <<IF r.raised_error = None THEN r.stdout
                                 ELSE r.raised_error>>, i),
              context |-> Merge(acc.context, r.updated_context),
              exec |-> [code |-> d.content[1], stdout |-> r.stdout,
                        raised_error |-> r.raised_error],
              run |-> Append(acc.run,
                        [code |-> d.content[1], given |-> start,
                         raised_error |-> r.raised_error,
                         updated_context |-> r.updated_context])]

\* One directive on the accumulator [sections, context, exec, run]; an
\* Execute goes through the Execution Bridge with the context as it stands,
\* and its result is folded into the document as content.
ApplyDirective(acc, d, i) ==
    IF d.tag = "new_section"
    THEN [acc EXCEPT !.sections = PutSection(acc.sections, d.name, d.content, i)]
    ELSE LET r == execute(d.content[1], acc.context, i)
         IN  [sections |-> PutSection(acc.sections, d.name,
                               <<IF r.raised_error = None THEN r.stdout
                                 ELSE r.raised_error>>, i),
              context |-> r.updated_context,
              exec |-> [code |-> d.content[1], stdout |-> r.stdout,
                        raised_error |-> r.raised_error],
              run |-> Append(acc.run,
                        [code |-> d.content[1], given |-> acc.context,
                         raised_error |-> r.raised_error,
                         updated_context |-> r.updated_context])]

RECURSIVE ApplyDirectives(_, _, _)
ApplyDirectives(acc, directives, i) ==
    IF directives = <<>> THEN acc
    ELSE ApplyDirectives(ApplyDirective(acc, Head(directives), i),
                         Tail(directives), i)

\* Alphabetical rank of the section names in use.
AlphaRank(name) ==
    CASE name = "Analysis" -> 1
      [] name = "Output" -> 2
      [] name = "Plan" -> 3
      [] name = "Request" -> 4
      [] name = "Table_of_Contents" -> 5

TableOfContentsEntry(section) ==
    [section_id |-> section.name, name |-> section.name,
     preview_text |-> IF section.content = <<>> THEN "" ELSE section.content[1],
     has_content |-> section.content # <<>>]

MapEntries(sections) == [k \in 1..Len(sections) |-> TableOfContentsEntry(sections[k])]

\* Mutant: the entries are always sorted by name.
synthesize_ByName(sections, ordering) ==
    MapEntries(SortSeq(sections,
                       LAMBDA a, b : AlphaRank(a.name) < AlphaRank(b.name)))

\* synthesize(state): one entry per section, in creation order, or by name
\* under toc_ordering = Alphabetical.
synthesize(sections, ordering) ==
    IF ordering = "Alphabetical"
    THEN MapEntries(SortSeq(sections,
                            LAMBDA a, b : AlphaRank(a.name) < AlphaRank(b.name)))
    ELSE MapEntries(sections)

\* The codes of the Execute directives of a response, in order of appearance.
RECURSIVE ExecuteCodes(_)
ExecuteCodes(response) ==
    IF response = <<>> THEN <<>>
    ELSE (IF Head(response).tag = "execute" THEN <<Head(response).content[1]>>
          ELSE <<>>) \o ExecuteCodes(Tail(response))

\* doc.keys()
Keys(doc) == {doc[k].name : k \in 1..Len(doc)}

\* doc[name]
Content(doc, name) == doc[IndexOf(doc, name)].content

\* Mutant: every section of the updated document that differs from
\* current_doc.get(k) counts as modified.
diff_OverAllKeys(current_doc, updated_doc) ==
    [new_sections |-> Keys(updated_doc) \ Keys(current_doc),
     modified_sections |->
        {k \in Keys(updated_doc) :
            \/ k \notin Keys(current_doc)
            \/ Content(current_doc, k) # Content(updated_doc, k)}]

\* The document changes run_process_evaluation_test logs: the sections
\* added and the sections modified between two versions.
diff(current_doc, updated_doc) ==
    [new_sections |-> Keys(updated_doc) \ Keys(current_doc),
     modified_sections |->
        {k \in Keys(current_doc) \cap Keys(updated_doc) :
            Content(current_doc, k) # Content(updated_doc, k)}]

NoExec == [code |-> None, stdout |-> "", raised_error |-> None]

RIdle ==
    /\ r_ordering = "idle"
    /\ r_sections = <<>>
    /\ r_context = <<>>
    /\ r_iter = 0
    /\ r_exec = NoExec
    /\ r_toc = <<>>
    /\ r_response = <<>>
    /\ r_run = <<>>
    /\ r_changes = [new_sections |-> {}, modified_sections |-> {}]

\* create_default_doc(query): the document holds the request.
RInit ==
    /\ r_ordering \in {"CreationOrder", "Alphabetical"}
    /\ r_sections = <<Section("Request", <<"Calculate 2+2">>, 0)>>
    /\ r_context = <<>>
    /\ r_iter = 0
    /\ r_exec = NoExec
    /\ r_toc = <<>>
    /\ r_response = <<>>
    /\ r_run = <<>>
    /\ r_changes = [new_sections |-> {}, modified_sections |-> {}]

\* Mutant: every iteration executes in a fresh context.
RStep_FreshContext ==
    /\ r_ordering # "idle"
    /\ r_iter < MaxDocIter
    /\ \E response \in DocResponses :
          LET r == ApplyDirectives([sections |-> r_sections, context |-> <<>>,
                                    exec |-> r_exec, run |-> <<>>],
                                   response, r_iter + 1)
          IN  /\ r_sections' = r.sections
              /\ r_context' = r.context
              /\ r_exec' = r.exec
              /\ r_response' = ExecuteCodes(response)
              /\ r_run' = r.run
              /\ r_changes' = diff(r_sections, r.sections)
    /\ r_iter' = r_iter + 1
    /\ r_toc' = <<>>
    /\ UNCHANGED <<r_ordering, notr>>

\* One round of the loop of run_process_evaluation_test: step_work_on_doc
\* applies the directives of one response, in order, every Execute getting
\* the shared_context the one before it left; the changes of the document
\* are logged.
RStep ==
    /\ r_ordering # "idle"
    /\ r_iter < MaxDocIter
    /\ \E response \in DocResponses :
          LET r == ApplyDirectives([sections |-> r_sections, context |-> r_context,
                                    exec |-> r_exec, run |-> <<>>],
                                   response, r_iter + 1)
          IN  /\ r_sections' = r.sections
              /\ r_context' = r.context
              /\ r_exec' = r.exec
              /\ r_response' = ExecuteCodes(response)
              /\ r_run' = r.run
              /\ r_changes' = diff(r_sections, r.sections)
    /\ r_iter' = r_iter + 1
    /\ r_toc' = <<>>
    /\ UNCHANGED <<r_ordering, notr>>

\* Mutant: the table of contents is also stored in the document.
RSynthesize_StoresToc ==
    /\ r_ordering # "idle"
    /\ Len(r_toc) < MaxCalls
    /\ r_toc' = Append(r_toc, synthesize(r_sections, r_ordering))
    /\ r_sections' = PutSection(r_sections, "Table_of_Contents", <<"toc">>, r_iter)
    /\ UNCHANGED <<r_ordering, r_context, r_iter, r_exec, r_response, r_run,
                   r_changes, notr>>

\* generate_table_of_contents / synthesize(state), called for the prompt.
RSynthesize ==
    /\ r_ordering # "idle"
    /\ Len(r_toc) < MaxCalls
    /\ r_toc' = Append(r_toc, synthesize(r_sections, r_ordering))
    /\ UNCHANGED <<r_ordering, r_sections, r_context, r_iter, r_exec, r_response,
                   r_run, r_changes, notr>>

(***************************************************************************)
(* Renaissance: driving step_work_on_doc by hand and the automated loop    *)
(* of run_process_evaluation_test.                                         *)
(***************************************************************************)
MaxRun == 3   \* iterations of either drive explored

\* A task: the document, the shared_context, the document history and the
\* number of iterations made.
Task(sections, context, history, iteration) ==
    [sections |-> sections, context |-> context, history |-> history,
     iteration |-> iteration]

\* create_default_doc(prompt)
create_default_doc(prompt) ==
    Task(<<Section("Request", <<prompt>>, 0)>>, <<>>, <<>>, 0)

\* Responses the model gives to either drive.
RunResponses ==
    { <<>>,
      <<ExecuteTag("x = 1")>>,
      <<ExecuteTag("print(x)")>>,
      <<NewSectionTag("Plan", <<>>), ExecuteTag("x = 1")>> }

\* step_work_on_doc(llm, doc) with the response the model gives: the
\* directives are applied and the updated document is saved to the history.
step_work_on_doc(task, response) ==
    LET r == ApplyDirectives([sections |-> task.sections, context |-> task.context,
                              exec |-> NoExec, run |-> <<>>],
                             response, task.iteration + 1)
    IN  Task(r.sections, r.context, Append(task.history, r.sections),
             task.iteration + 1)

\* Mutant: every iteration of the loop works on the initial document.
RECURSIVE run_StaleDoc(_, _, _)
run_StaleDoc(doc, responses, iterations) ==
    IF iterations = 0 THEN doc
    ELSE LET current_doc == run_StaleDoc(doc, responses, iterations - 1)
             updated == step_work_on_doc(
                            [current_doc EXCEPT !.sections = doc.sections],
                            responses[iterations])
         IN  updated

\* run_process_evaluation_test: `for i in range(iterations)`, each round
\* calling step_work_on_doc on current_doc and making the result the
\* current_doc of the next round (README lines 552-583).
RECURSIVE run(_, _, _)
run(doc, responses, iterations) ==
    IF iterations = 0 THEN doc
    ELSE LET current_doc == run(doc, responses, iterations - 1)
             updated_doc == step_work_on_doc(current_doc, responses[iterations])
         IN  updated_doc

NoRun == [iterations |-> 0, task |-> Task(<<>>, <<>>, <<>>, 0)]

QIdle ==
    /\ q_task = Task(<<>>, <<>>, <<>>, 0)
    /\ q_responses = <<>>
    /\ q_result = NoRun

QInit ==
    /\ q_task = create_default_doc("Calculate 2+2")
    /\ q_responses = <<>>
    /\ q_result = NoRun

\* The caller's own loop (part_014 lines 46-48): one call of step_work_on_doc.
QStep ==
    /\ q_task.sections # <<>>
    /\ Len(q_responses) < MaxRun
    /\ \E response \in RunResponses :
          /\ q_task' = step_work_on_doc(q_task, response)
          /\ q_responses' = Append(q_responses, response)
    /\ UNCHANGED <<q_result, notq>>

\* The automated loop over the first `iterations` of the same responses.
QRun ==
    /\ q_task.sections # <<>>
    /\ \E iterations \in 1..Len(q_responses) :
          q_result' = [iterations |-> iterations,
                       task |-> run(create_default_doc("Calculate 2+2"),
                                    q_responses, iterations)]
    /\ UNCHANGED <<q_task, q_responses, notq>>

(***************************************************************************)
(* "Final GPT suggestion": Store, reducers and the reactive cells.         *)
(***************************************************************************)
MaxFuel == 14     \* nested calls and loop rounds followed before giving up
MaxMemory == 1    \* entries of state["memory"]

\* A cell of state["cells"]; the dict keeps insertion order.
StoreCell(id, dependencies, compute, value) ==
    [id |-> id, dependencies |-> dependencies, compute |-> compute, value |-> value]

\* initial_state, lines 55-64.
initial_state == [cells |-> <<>>, memory |-> <<>>, context |-> "" ]

Action(type, id, dependencies, compute, value) ==
    [type |-> type, id |-> id, dependencies |-> dependencies,
     compute |-> compute, value |-> value]

\* The actions dispatched from outside.
StoreActions ==
    { Action("DEFINE_CELL", "response_cell", <<<<"context", "current_query">>>>,
             "query_response_cell", None),
      Action("DEFINE_CELL", "summary_cell", <<<<"cell", "response_cell">>>>,
             "mark", None),
      Action("DEFINE_CELL", "echo_cell", <<<<"cell", "summary_cell">>>>,
             "echo", None),
      Action("DEFINE_CELL", "echo_cell", <<<<"cell", "echo_cell">>>>,
             "flip", None),
      Action("UPDATE_CELL_VALUE", "response_cell", <<>>, None, "manual"),
      Action("ADD_MEMORY_ENTRY", None, <<>>, None, "fact"),
      Action("UPDATE_CONTEXT", None, <<>>, None, ""),
      Action("UPDATE_CONTEXT", None, <<>>, None, "What is Python?"),
      Action("RESET", None, <<>>, None, None) }

CellIndex(cells, id) ==
    IF \E k \in 1..Len(cells) : cells[k].id = id
    THEN CHOOSE k \in 1..Len(cells) : cells[k].id = id
    ELSE 0

\* The compute functions, by name; query_response_cell runs the pipeline,
\* which reads the memory of the store.
compute(fn, dep_values, state) ==
    CASE fn = "query_response_cell" ->
            IF dep_values[1] \in {None, ""} THEN "No query provided."
            ELSE IF state.memory = <<>> THEN "LLM response"
            ELSE "LLM response with memory"
      [] fn = "mark" -> IF dep_values[1] = None THEN "pending"
                        ELSE IF dep_values[1] = "No query provided." THEN "empty"
                        ELSE "done"
      [] fn = "echo" -> dep_values[1]
      [] fn = "flip" -> IF dep_values[1] = "x" THEN "y" ELSE "x"

\* Mutant: UPDATE_CELL_VALUE returns the copy without storing the value.
cell_reducer_DropsValue(state, action) ==
    IF action.type = "DEFINE_CELL"
    THEN [state |->
            [state EXCEPT !.cells =
                IF CellIndex(state.cells, action.id) = 0
                THEN Append(state.cells,
                            StoreCell(action.id, action.dependencies,
                                      action.compute, None))
                ELSE [state.cells EXCEPT ![CellIndex(state.cells, action.id)] =
                         StoreCell(action.id, action.dependencies,
                                   action.compute, None)]],
          raised |-> FALSE]
    ELSE IF action.type = "UPDATE_CELL_VALUE"
    THEN IF CellIndex(state.cells, action.id) = 0
         THEN [state |-> state, raised |-> TRUE]
         ELSE [state |-> state, raised |-> FALSE]
    ELSE [state |-> state, raised |-> FALSE]

\* cell_reducer, lines 70-86; raised = KeyError for a cell that is not
\* defined.
cell_reducer(state, action) ==
    IF action.type = "DEFINE_CELL"
    THEN [state |->
            [state EXCEPT !.cells =
                IF CellIndex(state.cells, action.id) = 0
                THEN Append(state.cells,
                            StoreCell(action.id, action.dependencies,
                                      action.compute, None))
                ELSE [state.cells EXCEPT ![CellIndex(state.cells, action.id)] =
                         StoreCell(action.id, action.dependencies,
                                   action.compute, None)]],
          raised |-> FALSE]
    ELSE IF action.type = "UPDATE_CELL_VALUE"
    THEN IF CellIndex(state.cells, action.id) = 0
         THEN [state |-> state, raised |-> TRUE]
         ELSE [state |->
                 [state EXCEPT !.cells[CellIndex(state.cells, action.id)].value =
                     action.value],
               raised |-> FALSE]
    ELSE [state |-> state, raised |-> FALSE]

\* memory_reducer, lines 88-94.
memory_reducer(state, action) ==
    IF action.type = "ADD_MEMORY_ENTRY"
    THEN [state EXCEPT !.memory = Append(@, action.value)]
    ELSE state

\* context_reducer, lines 96-101.
context_reducer(state, action) ==
    IF action.type = "UPDATE_CONTEXT"
    THEN [state EXCEPT !.context = action.value]
    ELSE state

\* dispatch, lines 40-42: the registered reducers in order of registration.
reduce(state, action) ==
    LET c == cell_reducer(state, action)
    IN  IF c.raised THEN c
        ELSE [state |-> context_reducer(memory_reducer(c.state, action), action),
              raised |-> FALSE]

\* resolve_dependency_value, lines 110-122, on the current store state;
\* ok = FALSE for the KeyError of a cell or context key that is not there.
resolve_dependency_value(state, dep) ==
    IF dep[1] = "cell"
    THEN IF CellIndex(state.cells, dep[2]) = 0
         THEN [ok |-> FALSE, value |-> None]
         ELSE [ok |-> TRUE, value |-> state.cells[CellIndex(state.cells, dep[2])].value]
    ELSE IF dep[1] = "context"
    THEN IF dep[2] = "current_query"
         THEN [ok |-> TRUE, value |-> state.context]
         ELSE [ok |-> FALSE, value |-> None]
    ELSE [ok |-> TRUE, value |-> None]

\* How a call ended: the store state it left, whether an exception left it,
\* whether it was still running when the fuel ran out, whether the
\* listeners were called, whether a for loop dispatched, and the deepest
\* nesting of recompute_cells under it.
Ended(state, raised, diverged, notified, changed, depth) ==
    [state |-> state, raised |-> raised, diverged |-> diverged,
     notified |-> notified, changed |-> changed, depth |-> depth]

Deeper(a, b) == IF a >= b THEN a ELSE b

RECURSIVE dispatch_AlwaysNotifies(_, _, _)
RECURSIVE dispatch_Silent(_, _, _)
RECURSIVE dispatch(_, _, _)
RECURSIVE recompute_for(_, _, _, _, _)
RECURSIVE recompute_cells(_, _)

\* recompute_cells, lines 130-135: the for loop over the cells of the
\* snapshot s from its k-th cell on, the store holding `state`.
recompute_for(s, k, state, changed, fuel) ==
    IF k > Len(s.cells) THEN Ended(state, FALSE, FALSE, FALSE, changed, 0)
    ELSE LET cell == s.cells[k]
             deps == [i \in 1..Len(cell.dependencies) |->
                         resolve_dependency_value(state, cell.dependencies[i])]
         IN  IF \E i \in 1..Len(deps) : ~deps[i].ok
             THEN Ended(state, TRUE, FALSE, FALSE, changed, 0)
             ELSE LET new_value ==
                          compute(cell.compute,
                                  [i \in 1..Len(deps) |-> deps[i].value], state)
                  IN  IF new_value # cell.value
                      THEN LET d == dispatch(state,
                                      Action("UPDATE_CELL_VALUE", cell.id, <<>>,
                                             None, new_value),
                                      fuel - 1)
                           IN  IF d.raised \/ d.diverged THEN d
                               ELSE LET rest == recompute_for(s, k + 1, d.state,
                                                              TRUE, fuel)
                                    IN  [rest EXCEPT !.depth = Deeper(@, d.depth)]
                      ELSE recompute_for(s, k + 1, state, changed, fuel)

\* recompute_cells, lines 124-135: `while changed`, each round on a fresh
\* snapshot of the store state.
recompute_cells(state, fuel) ==
    IF fuel <= 0 THEN Ended(state, FALSE, TRUE, FALSE, FALSE, 1)
    ELSE LET round == recompute_for(state, 1, state, FALSE, fuel)
         IN  IF round.raised \/ round.diverged
             THEN [round EXCEPT !.depth = @ + 1]
             ELSE IF round.changed
             THEN LET again == recompute_cells(round.state, fuel - 1)
                  IN  [again EXCEPT !.depth = Deeper(@, round.depth + 1)]
             ELSE [round EXCEPT !.depth = @ + 1]

\* Mutant: the listeners are called after every dispatch.
dispatch_AlwaysNotifies(state, action, fuel) ==
    IF fuel <= 0 THEN Ended(state, FALSE, TRUE, FALSE, FALSE, 0)
    ELSE LET r == reduce(state, action)
         IN  IF r.raised THEN Ended(state, TRUE, FALSE, FALSE, FALSE, 0)
             ELSE LET l == recompute_cells(r.state, fuel - 1)
                  IN  [l EXCEPT !.notified = TRUE]

\* Mutant: the new state is stored and no listener is called.
dispatch_Silent(state, action, fuel) ==
    IF fuel <= 0 THEN Ended(state, FALSE, TRUE, FALSE, FALSE, 0)
    ELSE LET r == reduce(state, action)
         IN  IF r.raised THEN Ended(state, TRUE, FALSE, FALSE, FALSE, 0)
             ELSE Ended(r.state, FALSE, FALSE, FALSE, FALSE, 0)

\* Store.dispatch, lines 39-46, with recompute_cells the one listener
\* (line 137).
dispatch(state, action, fuel) ==
    IF fuel <= 0 THEN Ended(state, FALSE, TRUE, FALSE, FALSE, 0)
    ELSE LET r == reduce(state, action)
         IN  IF r.raised THEN Ended(state, TRUE, FALSE, FALSE, FALSE, 0)
             ELSE IF r.state # state
             THEN LET l == recompute_cells(r.state, fuel - 1)
                  IN  [l EXCEPT !.notified = TRUE]
             ELSE Ended(state, FALSE, FALSE, FALSE, FALSE, 0)

NoAction == Action(None, None, <<>>, None, None)

StIdle ==
    /\ st_state = [cells |-> <<>>, memory |-> <<>>, context |-> None]
    /\ st_action = NoAction
    /\ st_last = Ended(st_state, FALSE, FALSE, FALSE, FALSE, 0)

\* Lines 66 and 103-137: the store with its reducers and its listener.
StInit ==
    /\ st_state = initial_state
    /\ st_action = NoAction
    /\ st_last = Ended(st_state, FALSE, FALSE, FALSE, FALSE, 0)

\* An outermost store.dispatch(action), lines 183-200.
StDispatch ==
    /\ st_state.context # None
    /\ ~st_last.raised /\ ~st_last.diverged
    /\ \E action \in StoreActions :
          /\ action.type = "ADD_MEMORY_ENTRY" => Len(st_state.memory) < MaxMemory
          /\ st_action' = action
          /\ st_last' = dispatch(st_state, action, MaxFuel)
          /\ st_state' = st_last'.state
    /\ UNCHANGED notst

(***************************************************************************)
(* Project tree (additional versions): ProjectNode.add_content and         *)
(* ContentParser.parse.                                                    *)
(***************************************************************************)
MaxAdds == 3      \* add_content calls that succeed

\* ContentParseResult, lines 42-47.
ContentParseResult(status, content, clarification_needed, partial_understanding) ==
    [status |-> status, content |-> content,
     clarification_needed |-> clarification_needed,
     partial_understanding |-> partial_understanding]

\* What _full_parse and _partial_parse make of a content (lines 146-154):
\* full = FALSE when _full_parse raises, partial = FALSE when
\* _partial_parse returns nothing.
ParseOutcomes == [full : BOOLEAN, partial : BOOLEAN]

Contents == {"goal: ship", "???"}

FieldNames == {None, "notes"}

\* ContentParser.parse, lines 125-144.
parse(content, outcome) ==
    IF outcome.full
    THEN ContentParseResult("success", <<"parsed", content>>, None, None)
    ELSE IF outcome.partial
    THEN ContentParseResult("partial", None,
                            "Please clarify the following aspects...",
                            <<"understood", content>>)
    ELSE ContentParseResult("needs_clarification", None,
                            <<"clarify", content>>, None)

\* f"content_{len(self.fields)}", line 70.
ContentNames ==
    <<"content_0", "content_1", "content_2", "content_3", "content_4", "content_5">>

SetField(fields, name, content) ==
    [f \in DOMAIN fields \cup {name} |-> IF f = name THEN content ELSE fields[f]]

\* update_summary, lines 82-98, for a node without subprojects.
update_summary(fields, now) == [fields |-> DOMAIN fields, last_updated |-> now]

\* Mutant: what was understood of a PARTIAL result is stored as well.
add_content_StoresPartial(fields, summary, content, field_name, outcome, now) ==
    LET result == parse(content, outcome)
        name == IF field_name # None THEN field_name
                ELSE ContentNames[Cardinality(DOMAIN fields) + 1]
    IN  IF result.status = "success"
        THEN [fields |-> SetField(fields, name, result.content),
              summary |-> update_summary(SetField(fields, name, result.content), now),
              result |-> result, now |-> now + 1]
        ELSE IF result.status = "partial"
        THEN [fields |-> SetField(fields, name, result.partial_understanding),
              summary |-> summary, result |-> result, now |-> now]
        ELSE [fields |-> fields, summary |-> summary, result |-> result,
              now |-> now]

\* ProjectNode.add_content, lines 59-73, on a node whose clock has been
\* read `now` times: [fields, summary, result, now].
add_content(fields, summary, content, field_name, outcome, now) ==
    LET result == parse(content, outcome)
        name == IF field_name # None THEN field_name
                ELSE ContentNames[Cardinality(DOMAIN fields) + 1]
    IN  IF result.status = "success"
        THEN [fields |-> SetField(fields, name, result.content),
              summary |-> update_summary(SetField(fields, name, result.content), now),
              result |-> result, now |-> now + 1]
        ELSE [fields |-> fields, summary |-> summary, result |-> result,
              now |-> now]

NoResult == ContentParseResult(None, None, None, None)

PnIdle ==
    /\ pn_fields = <<>>
    /\ pn_summary = [fields |-> {}, last_updated |-> 0]
    /\ pn_result = NoResult
    /\ pn_now = 0

\* ProjectNode(goal), lines 50-57: no fields, an empty summary.
PnInit ==
    /\ pn_fields = <<>>
    /\ pn_summary = [fields |-> {}, last_updated |-> 0]
    /\ pn_result = NoResult
    /\ pn_now = 1

\* node.add_content(content, field_name).
PnAddContent ==
    /\ pn_now \in 1..MaxAdds
    /\ \E content \in Contents, field_name \in FieldNames, outcome \in ParseOutcomes :
          LET r == add_content(pn_fields, pn_summary, content, field_name,
                               outcome, pn_now)
          IN  /\ pn_fields' = r.fields
              /\ pn_summary' = r.summary
              /\ pn_result' = r.result
              /\ pn_now' = r.now
    /\ UNCHANGED notpn

(***************************************************************************)
(* Task-aware solver: SystemState.get_tasks and get_next_tasks.            *)
(***************************************************************************)
\* TaskStatus, lines 13-17.
TaskStatus == {"pending", "in_progress", "completed", "blocked"}

\* A cell by its content: a Task with status and dependencies, or text.
TaskCell(status, dependencies) ==
    [isTask |-> TRUE, status |-> status, dependencies |-> dependencies]
TextCell == [isTask |-> FALSE, status |-> None, dependencies |-> {}]

\* The cells of the states queried, in the order they were inserted.
CellOrder == <<"t1", "n1", "t2">>

\* States to query: a text cell and two tasks of any status; the first task
\* depends on any of the second task, the text cell and an id that is in no
\* cell, the second on the first or on nothing.
TaskStates ==
    { [id \in {"t1", "n1", "t2"} |->
          IF id = "t1" THEN TaskCell(s1, d1)
          ELSE IF id = "t2" THEN TaskCell(s2, d2)
          ELSE TextCell] :
      s1 \in TaskStatus, s2 \in TaskStatus,
      d1 \in SUBSET {"t2", "n1", "zz"}, d2 \in SUBSET {"t1"} }

\* get_tasks, lines 51-57: the ids whose content is a Task, in dict order.
get_tasks(cells) == SelectSeq(CellOrder, LAMBDA id : cells[id].isTask)

InSeq(x, s) == \E i \in 1..Len(s) : s[i] = x

\* Mutant: a dependency that is no task of the state is passed over.
get_next_tasks_SkipsMissing(cells) ==
    LET tasks == get_tasks(cells)
        ready == SelectSeq(tasks, LAMBDA id :
                    /\ cells[id].status = "pending"
                    /\ \A dep \in cells[id].dependencies :
                          InSeq(dep, tasks) => cells[dep].status = "completed")
    IN  [i \in 1..Len(ready) |-> <<ready[i], cells[ready[i]]>>]

\* get_next_tasks, lines 59-67.
get_next_tasks(cells) ==
    LET tasks == get_tasks(cells)
        ready == SelectSeq(tasks, LAMBDA id :
                    /\ cells[id].status = "pending"
                    /\ \A dep \in cells[id].dependencies :
                          InSeq(dep, tasks) /\ cells[dep].status = "completed")
    IN  [i \in 1..Len(ready) |-> <<ready[i], cells[ready[i]]>>]

TIdle == t_pc = "idle" /\ t_state = <<>> /\ t_next = <<>>

TInit == t_pc = "ready" /\ t_state \in TaskStates /\ t_next = <<>>

\* state.get_next_tasks()
TGetNextTasks ==
    /\ t_pc = "ready"
    /\ t_next' = get_next_tasks(t_state)
    /\ t_pc' = "asked"
    /\ UNCHANGED <<t_state, nott>>

XIdle ==
    /\ x_pc = "idle"
    /\ x_state = SystemState(<<>>, None)
    /\ x_prior = SystemState(<<>>, None)
    /\ x_response = NoResponse
    /\ x_correction = NoResponse
    /\ x_final = NoResponse
    /\ x_path = <<>>
    /\ x_iter = 0
    /\ x_uuid = 0
    /\ x_history = <<>>

InitV4 == V4Init /\ XIdle /\ LGIdle /\ DIdle /\ S7Idle /\ RIdle /\ QIdle /\ StIdle /\ PnIdle /\ TIdle
NextV4 == V4Ask \/ V4Solved \/ V4Apply
SpecV4 == InitV4 /\ [][NextV4]_vars

InitV10 == XInit /\ V4Idle /\ LGIdle /\ DIdle /\ S7Idle /\ RIdle /\ QIdle /\ StIdle /\ PnIdle /\ TIdle
NextV10 == XMain \/ XCorrect \/ XFallback
SpecV10 == InitV10 /\ [][NextV10]_vars

\* The v10 solver with a provider that may fail.
NextV10F == NextV10 \/ XRaise
SpecV10F == InitV10 /\ [][NextV10F]_vars

InitLG == LGInit /\ V4Idle /\ XIdle /\ DIdle /\ S7Idle /\ RIdle /\ QIdle /\ StIdle /\ PnIdle /\ TIdle
NextLG == LGAnalyze \/ LGGenerate \/ LGParse \/ LGUpdate \/ LGPropagate
SpecLG == InitLG /\ [][NextLG]_vars

InitDoc == DInit /\ V4Idle /\ XIdle /\ LGIdle /\ S7Idle /\ RIdle /\ QIdle /\ StIdle /\ PnIdle /\ TIdle
NextDoc == DApply
SpecDoc == InitDoc /\ [][NextDoc]_vars

InitTasks == S7Init /\ V4Idle /\ XIdle /\ LGIdle /\ DIdle /\ RIdle /\ QIdle /\ StIdle /\ PnIdle /\ TIdle
NextTasks == S7Solved \/ S7Step
SpecTasks == InitTasks /\ [][NextTasks]_vars

InitRen == RInit /\ V4Idle /\ XIdle /\ LGIdle /\ DIdle /\ S7Idle /\ QIdle /\ StIdle /\ PnIdle /\ TIdle
NextRen == RStep \/ RSynthesize
SpecRen == InitRen /\ [][NextRen]_vars

\* Either solver, for the properties both share.
InitRun == QInit /\ V4Idle /\ XIdle /\ LGIdle /\ DIdle /\ S7Idle /\ RIdle /\ StIdle /\ PnIdle /\ TIdle
NextRun == QStep \/ QRun
SpecRun == InitRun /\ [][NextRun]_vars

InitStore == StInit /\ V4Idle /\ XIdle /\ LGIdle /\ DIdle /\ S7Idle /\ RIdle /\ QIdle /\ PnIdle /\ TIdle
NextStore == StDispatch
SpecStore == InitStore /\ [][NextStore]_vars

InitNode == PnInit /\ V4Idle /\ XIdle /\ LGIdle /\ DIdle /\ S7Idle /\ RIdle /\ QIdle /\ StIdle /\ TIdle
NextNode == PnAddContent
SpecNode == InitNode /\ [][NextNode]_vars

InitReady == TInit /\ V4Idle /\ XIdle /\ LGIdle /\ DIdle /\ S7Idle /\ RIdle /\ QIdle /\ StIdle /\ PnIdle
NextReady == TGetNextTasks
SpecReady == InitReady /\ [][NextReady]_vars

InitSolvers == InitV4 \/ InitV10
NextSolvers == NextV4 \/ NextV10
SpecSolvers == InitSolvers /\ [][NextSolvers]_vars

(***************************************************************************)
(* Properties.                                                             *)
(***************************************************************************)

\* A document state is valid when its focus is unset or names one of its
\* sections (ids are the keys of `cells`, hence unique).
ValidState(state) ==
    state.current_cell_id = None \/ state.current_cell_id \in DOMAIN state.cells

\* A directive of the batch that fails validation where it is applied: a
\* MODIFY CELL that is truncated or names no cell, a SET CURRENT that names
\* no cell.
FailsValidation(acc, ch) ==
    \/ IsModifyCell(ch) /\ (Len(ch) < 4 \/ FirstColon(ch) = 0)
    \/ IsModifyCell(ch) /\ Len(ch) >= 4 /\ ~InCells(<<ch[4]>>, acc.cells)
    \/ IsSetCurrent(ch) /\ ~InCells(AfterColon(ch), acc.cells)

RECURSIVE AnyFails(_, _)
AnyFails(acc, changes) ==
    IF changes = <<>> \/ acc.raised THEN FALSE
    ELSE \/ ~IsNewCell(Head(changes)) /\ FailsValidation(acc, Head(changes))
         \/ AnyFails(ApplyChange(acc, Head(changes)), Tail(changes))

HasFailingDirective(state, response, n) ==
    AnyFails([cells |-> state.cells, current_cell_id |-> state.current_cell_id,
              uuid |-> n, raised |-> FALSE],
             SelectSeq(response, IsChange))

\* C1 (stated on v4 solve): whatever text the model returns, an iteration of
\* solve ends without an exception reaching the caller and leaves a valid
\* document state.
C1_RecoveryTotality ==
    /\ v4_pc # "raised"
    /\ v4_pc \in {"loop", "got", "solved"} => ValidState(v4_state)

\* C2: when a directive of a batch fails validation, the whole batch is
\* rejected: the document state after _apply_changes equals the state before.
C2_RejectedBatchLeavesState ==
    [][(/\ v4_pc = "got"
        /\ ~StatusSolved(v4_response)
        /\ HasFailingDirective(v4_state, v4_response, v4_uuid))
       => v4_state' = v4_state]_vars

IsPrefix(s, t) == Len(s) <= Len(t) /\ SubSeq(t, 1, Len(s)) = s

Corrections(path) ==
    Cardinality({i \in 1..Len(path) : path[i] \in {"Correcting1", "Correcting2"}})

Failed(response) ==
    response # NoResponse /\ ~try_parse_state(response, 0).success

GaveUp == Len(x_path) = 4 /\ x_path[4] = "GiveUp"

\* C5: after GiveUp the state is the prior state plus exactly one new
\* Unparsed_Response section holding the raw (main) response; the focus and
\* every earlier section are unchanged.
C5_GiveUpAppendsUnparsed ==
    GaveUp =>
        /\ x_state.current_cell_id = x_prior.current_cell_id
        /\ DOMAIN x_prior.cells \subseteq DOMAIN x_state.cells
        /\ \A id \in DOMAIN x_prior.cells : x_state.cells[id] = x_prior.cells[id]
        /\ Cardinality(DOMAIN x_state.cells \ DOMAIN x_prior.cells) = 1
        /\ \A id \in DOMAIN x_state.cells \ DOMAIN x_prior.cells :
              x_state.cells[id] = <<"Unparsed_Response", x_response.text>>

C5_Witness ==
    GaveUp /\ Cardinality(DOMAIN x_prior.cells) >= 2 /\ x_final.marker


\* The iteration budget a caller of the specified `solve` would pass.
\* A max_iterations budget, below the number of iterations the runs reach.
max_iterations == MaxIter - 2

C7_FocusValid == ValidState(v4_state) /\ ValidState(x_state)

C7_Witness ==
    /\ v4_pc = "loop"
    /\ v4_state.current_cell_id = "u1"
    /\ v4_prior.current_cell_id = "initial"

SameFolded(a, b) ==
    /\ Len(a) = Len(b)
    /\ \A i \in 1..Len(a) :
          \/ a[i] \in {" ", "_"} /\ b[i] \in {" ", "_"}
          \/ Lower(a[i]) = Lower(b[i])

C10_HistoryAppendOnly ==
    [][/\ Len(lg_state'.history) >= Len(lg_state.history)
       /\ \A i \in 1..Len(lg_state.history) :
             lg_state'.history[i] = lg_state.history[i]]_vars

C10_Witness ==
    /\ Len(lg_state.history) >= 4
    /\ lg_state.history[3].type = "parsing"
    /\ lg_state.nodes["root"].content # {}
    /\ lg_pc = "generate_content"

\* A well-formed MODIFY CELL or SET CURRENT whose id names no cell of the
\* state it is applied to.
UnknownId(acc, ch) ==
    \/ IsModifyCell(ch) /\ Len(ch) >= 4 /\ FirstColon(ch) # 0
                        /\ ~InCells(<<ch[4]>>, acc.cells)
    \/ ~IsModifyCell(ch) /\ IsSetCurrent(ch) /\ ~InCells(AfterColon(ch), acc.cells)

RECURSIVE AnyUnknownId(_, _)
AnyUnknownId(acc, changes) ==
    IF changes = <<>> \/ acc.raised THEN FALSE
    ELSE \/ ~IsNewCell(Head(changes)) /\ UnknownId(acc, Head(changes))
         \/ AnyUnknownId(ApplyChange(acc, Head(changes)), Tail(changes))

HasUnknownId(state, response, n) ==
    AnyUnknownId([cells |-> state.cells, current_cell_id |-> state.current_cell_id,
                  uuid |-> n, raised |-> FALSE],
                 SelectSeq(response, IsChange))

\* C11: a MODIFY CELL or SET CURRENT whose id is no cell of the state at the
\* point it is applied is rejected with an error; it is not skipped while
\* the rest of the batch applies.
C11_UnknownIdRejected ==
    [][(/\ v4_pc = "got"
        /\ ~StatusSolved(v4_response)
        /\ HasUnknownId(v4_state, v4_response, v4_uuid))
       => v4_pc' = "raised"]_vars

\* The response that ended the run carries a NEXT STATE block as well.
ReturnedWithEdits ==
    x_pc = "returned" /\ x_response.marker /\ x_response.wf

\* C12 as stated: when SOLVED comes with a state block, the run ends, none
\* of the block is applied and a warning is recorded.
C12_CompleteDiscardsEditsAndWarns ==
    ReturnedWithEdits => x_state = x_prior /\ RecordedWarnings # {}

\* C12 amended: when SOLVED comes with a state block, the run ends through
\* SOLVED and none of the block is applied: the document state is the one
\* the response was asked for and no id was drawn for it; no warning is
\* recorded.
C12_CompleteDiscardsEdits ==
    ReturnedWithEdits =>
        /\ x_state = x_prior
        /\ \A i \in (x_uuid + 1)..Len(UuidPool) : UuidPool[i] \notin DOMAIN x_state.cells
        /\ Len(x_history) = x_iter
        /\ RecordedWarnings = {}

C12_Witness == ReturnedWithEdits /\ x_iter = 2

\* The id a MODIFY CELL or SET CURRENT names.
NamedId(ch) ==
    IF IsModifyCell(ch) THEN ch[4].w ELSE KeyOf(AfterColon(ch))

\* Some directive names, where it is applied, an id that only a NEW CELL
\* further down the same response creates (`final` = the cells after the
\* whole response).
RECURSIVE AnyForwardRef(_, _, _)
AnyForwardRef(acc, changes, final) ==
    IF changes = <<>> \/ acc.raised THEN FALSE
    ELSE \/ /\ ~IsNewCell(Head(changes))
            /\ UnknownId(acc, Head(changes))
            /\ NamedId(Head(changes)) \in DOMAIN final
         \/ AnyForwardRef(ApplyChange(acc, Head(changes)), Tail(changes), final)

HasForwardRef(state, response, n) ==
    LET r == apply_changes(state, response, n)
    IN  /\ ~r.raised
        /\ AnyForwardRef([cells |-> state.cells,
                          current_cell_id |-> state.current_cell_id,
                          uuid |-> n, raised |-> FALSE],
                         SelectSeq(response, IsChange), r.cells)

\* C13: the directives of a response are applied in textual order, and one
\* that names a section declared only later in the same response fails
\* validation: the response is not applied.
C13_ForwardReferenceFails ==
    [][(/\ v4_pc = "got"
        /\ ~StatusSolved(v4_response)
        /\ HasForwardRef(v4_state, v4_response, v4_uuid))
       => (v4_pc' = "raised" \/ v4_state' = v4_state)]_vars

\* A change line (it starts with '-' or 'SET') that is none of the three
\* directives, or a MODIFY CELL cut short.
Malformed(ch) ==
    /\ IsChange(ch)
    /\ ~IsNewCell(ch)
    /\ IF IsModifyCell(ch) THEN Len(ch) < 4 \/ FirstColon(ch) = 0
       ELSE ~IsSetCurrent(ch)

HasValidAndMalformed(response) ==
    /\ \E k \in 1..Len(response) : IsNewCell(response[k])
    /\ \E k \in 1..Len(response) : Malformed(response[k])

\* C14: when a response has valid and malformed blocks, the outcome carries
\* the valid directives (here: the new cell) together with a failure for the
\* malformed content (here: the only failure _apply_changes can signal).
C14_PartialResultCarriesFailure ==
    [][(/\ v4_pc = "got"
        /\ ~StatusSolved(v4_response)
        /\ HasValidAndMalformed(v4_response))
       => (v4_state' # v4_state /\ v4_pc' = "raised")]_vars

\* The iteration just completed went Normal, Correcting(1) and the main
\* response had no "NEXT STATE:" marker.
CorrectedMissingMarker ==
    /\ x_pc = "Normal"
    /\ x_path = <<"Normal", "Correcting1">>
    /\ MissingMarker(x_response)

\* What the completed iteration adopted from the correction response.
AdoptedCorrection ==
    /\ x_state = try_parse_state(x_correction,
                                 x_uuid - Len(x_correction.cells)).result
    /\ Len(x_history) = x_iter
    /\ x_history[x_iter].state_snapshot = x_state
    /\ x_history[x_iter].raw_model_response = x_correction.text

\* C15 as stated: a main response without the marker is a
\* ParseFailure(MissingMarker) and leads to Correcting(1); a valid correction
\* response is adopted, the loop resumes, and attempts = 1 is recorded for
\* the iteration.
C15_CorrectionAdoptedAttemptsRecorded ==
    /\ (x_path = <<"Normal">> /\ MissingMarker(x_response)) => x_pc = "Correcting1"
    /\ CorrectedMissingMarker =>
          /\ AdoptedCorrection
          /\ "attempts" \in DOMAIN x_history[x_iter]
          /\ x_history[x_iter].attempts = 1

\* C15 amended: a main response without the marker (and without SOLVED) is
\* classified "Missing 'NEXT STATE:' marker" and leads to the correction
\* prompt; a valid correction response is adopted as the next state and the
\* loop resumes at the next iteration; no attempt count is recorded.
C15_CorrectionAdopted ==
    /\ (x_path = <<"Normal">> /\ MissingMarker(x_response)
            /\ ~ContainsSolved(x_response))
          => /\ x_pc = "Correcting1"
             /\ try_parse_state(x_response, x_uuid).result
                   = "Missing 'NEXT STATE:' marker"
    /\ CorrectedMissingMarker =>
          /\ AdoptedCorrection
          /\ try_parse_state(x_correction, 0).success
          /\ x_iter < MaxIter => ENABLED XMain
          /\ DOMAIN x_history[x_iter]
                = {"state_snapshot", "raw_model_response", "iteration_index"}

C15_Witness == CorrectedMissingMarker /\ x_iter = 1 /\ x_correction.cur = 2

\* No iteration of the task has changed the state yet.
V4BeforeFirstIteration ==
    v4_pc \in {"loop", "got", "solved"} /\ v4_prior = SystemState(<<>>, None)

XBeforeFirstIteration == x_pc # "idle" /\ x_iter = 0

\* C16: before the first iteration the document state has exactly one
\* section, and that section holds the raw request.
C16_InitialStateIsTheRequest ==
    /\ V4BeforeFirstIteration =>
          /\ DOMAIN v4_state.cells = {"initial"}
          /\ v4_state.cells["initial"] \in Queries
          /\ v4_state.current_cell_id = "initial"
    /\ XBeforeFirstIteration =>
          /\ DOMAIN x_state.cells = {"initial"}
          /\ x_state.cells["initial"] \in
                {<<"Cell", "q">>, <<"Cell", "Calculate 2+2">>}
          /\ x_state.current_cell_id = "initial"

C16_Witness ==
    /\ V4BeforeFirstIteration
    /\ v4_pc = "got"
    /\ v4_state.cells["initial"] = <<T("Calculate"), T("2+2")>>

\* C17: a failing task creation never propagates an exception to the caller
\* of solve_step; the failure is a cell of the parsed state.
C17_TaskFailureIsData == s7_pc # "raised"

InCreationOrder(toc) ==
    \A i, j \in 1..Len(toc) :
        i < j => r_sections[IndexOf(r_sections, toc[i].section_id)].created_at_iteration
                   <= r_sections[IndexOf(r_sections, toc[j].section_id)].created_at_iteration

JNull == [t |-> "null", s |-> "", n |-> 0, items |-> <<>>, members |-> {}]
JStr(s) == [t |-> "string", s |-> s, n |-> 0, items |-> <<>>, members |-> {}]
JNum(n) == [t |-> "number", s |-> "", n |-> n, items |-> <<>>, members |-> {}]
JArr(items) == [t |-> "array", s |-> "", n |-> 0, items |-> items, members |-> {}]
JObj(members) == [t |-> "object", s |-> "", n |-> 0, items |-> <<>>, members |-> members]

\* The value of key k in the object j, null when it has none.
Member(j, k) ==
    IF \E p \in j.members : p[1] = k
    THEN (CHOOSE p \in j.members : p[1] = k)[2]
    ELSE JNull

\* {sections, relations, current_focus_id, iteration}
DocumentState(sections, relations, focus, iteration) ==
    [sections |-> sections, relations |-> relations,
     current_focus_id |-> focus, iteration |-> iteration]

\* Mutant: an unset focus is written as the empty string.
serialize_NoNull(state) ==
    JObj({ <<"sections",
             JObj({ <<id, JArr(<<JStr(state.sections[id][1]),
                                 JStr(state.sections[id][2])>>)>> :
                    id \in DOMAIN state.sections })>>,
           <<"relations",
             JObj({ <<id, JStr(state.relations[id])>> : id \in DOMAIN state.relations })>>,
           <<"current_focus_id",
             IF state.current_focus_id = None THEN JStr("")
             ELSE JStr(state.current_focus_id)>>,
           <<"iteration", JNum(state.iteration)>> })

\* serialize(state): the JSON object of the four fields.
serialize(state) ==
    JObj({ <<"sections",
             JObj({ <<id, JArr(<<JStr(state.sections[id][1]),
                                 JStr(state.sections[id][2])>>)>> :
                    id \in DOMAIN state.sections })>>,
           <<"relations",
             JObj({ <<id, JStr(state.relations[id])>> : id \in DOMAIN state.relations })>>,
           <<"current_focus_id",
             IF state.current_focus_id = None THEN JNull
             ELSE JStr(state.current_focus_id)>>,
           <<"iteration", JNum(state.iteration)>> })

\* deserialize(json): the state the object describes.
deserialize(j) ==
    LET sections == Member(j, "sections")
        relations == Member(j, "relations")
        focus == Member(j, "current_focus_id")
    IN  DocumentState(
            [id \in {p[1] : p \in sections.members} |->
                <<Member(sections, id).items[1].s, Member(sections, id).items[2].s>>],
            [id \in {p[1] : p \in relations.members} |-> Member(relations, id).s],
            IF focus.t = "null" THEN None ELSE focus.s,
            Member(j, "iteration").n)

\* The document state of the v10 solver: its cells and focus, no relations,
\* the iteration count.
XDocumentState == DocumentState(x_state.cells, <<>>, x_state.current_cell_id, x_iter)

C28_GivenStateUntouched ==
    [][ (v4_pc = "got" /\ v4_pc' \in {"loop", "raised"}) =>
            v4_prior' = v4_state ]_vars

C28_Witness ==
    /\ v4_pc = "loop"
    /\ "initial" \in DOMAIN v4_prior.cells
    /\ Cardinality(DOMAIN v4_state.cells) > Cardinality(DOMAIN v4_prior.cells)
    /\ v4_state.current_cell_id # v4_prior.current_cell_id

Prompts(path, tier) == Cardinality({i \in 1..Len(path) : path[i] = tier})

\* C31: one iteration issues one main prompt, at most two correction prompts
\* (the configured maximum of the specification) and at most one fallback
\* prompt; once the fallback prompt has been answered the iteration has ended
\* with a committed state and no further call.
C31_BoundedCallsPerIteration ==
    /\ Prompts(x_path, "Normal") <= 1
    /\ Corrections(x_path) <= 2
    /\ Prompts(x_path, "Fallback") <= 1
    /\ Prompts(x_path, "Normal") + Corrections(x_path)
          + Prompts(x_path, "Fallback") <= 4
    /\ Prompts(x_path, "Fallback") = 1 =>
          /\ x_pc = "Normal"
          /\ Len(x_history) = x_iter
          /\ x_history[x_iter].state_snapshot = x_state

C31_Witness ==
    /\ x_path = <<"Normal", "Correcting1", "Fallback">>
    /\ x_pc = "Normal"
    /\ x_iter = 2

AdvertisedModify(id, text) == <<T("-"), T("MODIFY"), T("CELL"), C(id)>> \o text
AdvertisedSetCurrent(id) == <<T("-"), T("SET"), C("CURRENT"), T(id)>>

\* C33: a change written in an advertised format takes effect when it names
\* an existing cell: '- MODIFY CELL <id>: <text>' replaces the content of
\* cell <id>, '- SET CURRENT: <id>' moves the focus to cell <id>.
C33_AdvertisedFormatsTakeEffect ==
    [][ (v4_pc = "got" /\ v4_pc' = "loop" /\ Len(v4_response) = 1) =>
          \A id \in DOMAIN v4_state.cells :
             /\ v4_response[1] = AdvertisedModify(id, <<T("y")>>) =>
                   v4_state'.cells[id] = <<T("y")>>
             /\ v4_response[1] = AdvertisedSetCurrent(id) =>
                   v4_state'.current_cell_id = id ]_vars


\* An action type that one of the three reducers handles.
HandledTypes == {"DEFINE_CELL", "UPDATE_CELL_VALUE", "ADD_MEMORY_ENTRY", "UPDATE_CONTEXT"}

\* C34: an outermost dispatch calls the listeners if and only if the state
\* the reducers produce differs from the state before it, and an action
\* that no reducer handles leaves the store state as it was and calls no
\* listener.
C34_NotifiesIffChanged ==
    [][ /\ st_last'.notified <=>
              (~reduce(st_state, st_action').raised
               /\ reduce(st_state, st_action').state # st_state)
        /\ st_action'.type \notin HandledTypes =>
              (st_state' = st_state /\ ~st_last'.notified) ]_vars

\* C34 witness: a handled action whose reducers return a state equal to the
\* one before, dispatched on a store with cells, called no listener; and
\* the store has seen a dispatch that did.
C34_Witness ==
    /\ st_action.type = "UPDATE_CONTEXT"
    /\ ~st_last.notified
    /\ Len(st_state.cells) >= 2
    /\ st_state.cells[1].value # None

\* The stored value of the k-th cell is its compute function applied to the
\* current values of its dependencies.
AtFixpoint(state, k) ==
    LET cell == state.cells[k]
        deps == [i \in 1..Len(cell.dependencies) |->
                    resolve_dependency_value(state, cell.dependencies[i])]
    IN  /\ \A i \in 1..Len(deps) : deps[i].ok
        /\ cell.value = compute(cell.compute,
                                [i \in 1..Len(deps) |-> deps[i].value], state)

\* C35: when an outermost dispatch has returned, every defined cell holds
\* the value its compute function gives on the current values of its
\* dependencies.
C35_FixpointAfterDispatch ==
    (~st_last.raised /\ ~st_last.diverged) =>
        \A k \in 1..Len(st_state.cells) : AtFixpoint(st_state, k)

\* C35 witness: a dispatch that changed the context returned after nested
\* recomputation over a chain of three cells.
C35_Witness ==
    /\ st_action.type = "UPDATE_CONTEXT"
    /\ st_last.notified /\ ~st_last.raised /\ ~st_last.diverged
    /\ Len(st_state.cells) = 3
    /\ st_last.depth >= 2
    /\ st_state.cells[1].value = "LLM response"

RECURSIVE Reaches(_, _, _, _)
\* Cell a depends on cell b through at most n dependency edges.
Reaches(cells, a, b, n) ==
    /\ n > 0
    /\ CellIndex(cells, a) # 0
    /\ \E i \in 1..Len(cells[CellIndex(cells, a)].dependencies) :
          LET dep == cells[CellIndex(cells, a)].dependencies[i]
          IN  /\ dep[1] = "cell"
              /\ (dep[2] = b \/ Reaches(cells, dep[2], b, n - 1))

\* No cell depends on itself, directly or through other cells.
Acyclic(cells) ==
    \A k \in 1..Len(cells) : ~Reaches(cells, cells[k].id, cells[k].id, Len(cells))

\* C36: with the deterministic compute functions and acyclic dependencies,
\* the recomputation a dispatch starts comes to an end, nested calls of
\* recompute_cells through its own dispatch included.
C36_RecomputeTerminates ==
    Acyclic(st_state.cells) => ~st_last.diverged

\* C36 witness: a dispatch over acyclic cells ended after recompute_cells
\* was re-entered through its own dispatch at least three deep.
C36_Witness ==
    /\ Acyclic(st_state.cells)
    /\ Len(st_state.cells) = 3
    /\ st_last.notified /\ ~st_last.raised /\ ~st_last.diverged
    /\ st_last.depth >= 3


\* C37: every reachable v4 state holds the initial request cell, and no
\* step of solve removes a cell or changes an id: the ids after a step
\* include the ids before it.
C37_CellsOnlyGrow ==
    /\ []("initial" \in DOMAIN v4_state.cells)
    /\ [][DOMAIN v4_state.cells \subseteq DOMAIN v4_state'.cells]_vars

\* C37 witness: two cells were added and the initial cell was rewritten in
\* place, and all three ids are there.
C37_Witness ==
    /\ v4_pc = "loop"
    /\ Cardinality(DOMAIN v4_state.cells) = 3
    /\ "initial" \in DOMAIN v4_state.cells
    /\ v4_state.cells["initial"] \notin Queries
    /\ v4_state.current_cell_id # "initial"


\* C38: add_content changes the fields of the node only when parsing
\* returns SUCCESS; after a PARTIAL or NEEDS_CLARIFICATION result the
\* fields and the summary are as they were and that result is what the
\* caller gets.
C38_FieldsChangeOnlyOnSuccess ==
    [][ /\ pn_fields' # pn_fields => pn_result'.status = "success"
        /\ pn_result'.status \in {"partial", "needs_clarification"} =>
              (pn_fields' = pn_fields /\ pn_summary' = pn_summary) ]_vars

\* C38 witness: a node that already holds two fields got a PARTIAL result
\* back.
C38_Witness ==
    /\ pn_result.status = "partial"
    /\ pn_result.partial_understanding # None
    /\ Cardinality(DOMAIN pn_fields) = 2
    /\ pn_summary.fields = DOMAIN pn_fields


\* C39: when the last generated content is not valid JSON, parse_content
\* does not raise and returns the history with exactly one more entry, of
\* type parsing and status recovered, the node tree and the focus as they
\* were.
C39_InvalidJsonRecoveredOnce ==
    [][ (/\ lg_pc = "parse_content"
         /\ ~json_loads(LastOfType(lg_state.history, "generation").text).ok)
        => /\ lg_pc' # "raised"
           /\ Len(lg_state'.history) = Len(lg_state.history) + 1
           /\ SubSeq(lg_state'.history, 1, Len(lg_state.history)) = lg_state.history
           /\ lg_state'.history[Len(lg_state'.history)].type = "parsing"
           /\ lg_state'.history[Len(lg_state'.history)].status = "recovered"
           /\ lg_state'.nodes = lg_state.nodes
           /\ lg_state'.current_focus_id = lg_state.current_focus_id ]_vars


\* The tasks of the state that are pending with every dependency a
\* completed task of the state.
ReadyIds ==
    {id \in DOMAIN t_state :
        /\ t_state[id].isTask
        /\ t_state[id].status = "pending"
        /\ \A dep \in t_state[id].dependencies :
              /\ dep \in DOMAIN t_state
              /\ t_state[dep].isTask
              /\ t_state[dep].status = "completed"}

\* C40: get_next_tasks returns exactly the pending tasks whose every
\* dependency is a task present in the state and completed, each once and
\* with its own task; a task with a missing, pending, in-progress or
\* blocked dependency is not among them.
C40_NextTasksAreTheReadyOnes ==
    t_pc = "asked" =>
        /\ {t_next[i][1] : i \in 1..Len(t_next)} = ReadyIds
        /\ Len(t_next) = Cardinality(ReadyIds)
        /\ \A i \in 1..Len(t_next) : t_next[i][2] = t_state[t_next[i][1]]

\* C40 witness: the second task, pending and depending on the completed
\* first, was returned alone; the first depends on an id that is no cell.
C40_Witness ==
    /\ t_pc = "asked"
    /\ Len(t_next) = 1 /\ t_next[1][1] = "t2"
    /\ t_state["t2"].dependencies = {"t1"}
    /\ t_state["t1"].status = "completed"
    /\ "zz" \in t_state["t1"].dependencies
====
